---------------------------- MODULE Spec2Model ----------------------------
(***************************************************************************)
(* LockIn-Bot: voice-activity reconciliation and calendar-day streaks.     *)
(*                                                                         *)
(* The model follows the current iteration of the bot                      *)
(* (src/unnamed/part_008, package bot) and of the streak service           *)
(* (src/internal/service/timezone_helpers.go, package service) together    *)
(* with the SQL of src/db/queries.sql.  One guild is modelled, so a streak *)
(* row is keyed by its user.  The tables users and user_stats are only     *)
(* written by the modelled handlers and never read by them; they are left  *)
(* out.  Of study_sessions only the rows with end_time NULL are kept,      *)
(* because no modelled handler reads an ended row.                         *)
(***************************************************************************)
EXTENDS Integers, Sequences, FiniteSets, TLC

(***************************************************************************)
(* Program constants.                                                      *)
(***************************************************************************)
minimumActivityMinutes == 1
SecondsPerMinute == 60
SecondsPerDay == 86400
ManilaOffset == 28800
DedupeWindow == 3
CleanupThreshold == 15
RecentSessionWindow == 10
EvaluationSecond == 86340

(***************************************************************************)
(* Bounds of the model.                                                    *)
(***************************************************************************)
MaxDay == 2
MaxEvents == 2
MaxStreak == 6

Users == {"u1", "u2"}
NoChannel == ""
AllowedVoiceChannelIDs == {"A", "B"}
Channels == AllowedVoiceChannelIDs \cup {"X"}
Null == -1
NoSession == -1

(***************************************************************************)
(* The wall clock.  An instant is a number of seconds (UTC); the clock     *)
(* visits the instants of TimesOfDay (seconds after Manila midnight) on    *)
(* the days 1..MaxDay.  Day 0 is the day before the model starts.          *)
(***************************************************************************)
TimesOfDay == {30, 86160, 86340}

DateInstant(d) == d * SecondsPerDay - ManilaOffset

Instants == { DateInstant(d) + s : d \in 1..MaxDay, s \in TimesOfDay }

FirstInstant == DateInstant(1) + 86160

\* ConvertToManilaDate: the Manila calendar day that contains instant t.
ConvertToManilaDate(t) == (t + ManilaOffset) \div SecondsPerDay

\* Seconds elapsed since Manila midnight at instant t.
ManilaSecondOfDay(t) == (t + ManilaOffset) % SecondsPerDay

IsSameManilaDate(t1, t2) == ConvertToManilaDate(t1) = ConvertToManilaDate(t2)

(***************************************************************************)
(* The calendar helpers on time.Time values.  A time.Time is an instant    *)
(* (seconds, UTC) with a location attached (its offset in seconds); the    *)
(* calendar date it shows is the civil day of the instant at that offset.  *)
(***************************************************************************)
\* t.In(loc): the same instant, shown in another location
In(t, zone) == [t EXCEPT !.zone = zone]

\* t.Year(), t.Month(), t.Day(): the civil day shown by t, as a day number
CivilDay(t) == (t.sec + t.zone) \div SecondsPerDay

\* time.Date(year, month, day, 0, 0, 0, 0, loc): midnight of a civil day in loc
Date(day, zone) == [sec |-> day * SecondsPerDay - zone, zone |-> zone]

\* t1.Equal(t2): the same instant, whatever the locations
Equal(t1, t2) == t1.sec = t2.sec

\* ConvertToManilaDate that reads the date in the location attached to t
ConvertToManilaTime_attachedZone(t) == Date(CivilDay(t), ManilaOffset)

\* ConvertToManilaDate on a time.Time: midnight of t's day in Manila
ConvertToManilaTime(t) ==
    LET manilaTime == In(t, ManilaOffset)
    IN Date(CivilDay(manilaTime), ManilaOffset)

\* IsSameManilaDate on two time.Time values
IsSameManilaTime(t1, t2) ==
    LET date1 == ConvertToManilaTime(t1)
        date2 == ConvertToManilaTime(t2)
    IN Equal(date1, date2)

\* int(duration.Minutes()) of a non-negative duration given in seconds.
\* the minutes of a duration, rounded up
DurationMinutes_roundedUp(seconds) ==
    (seconds + SecondsPerMinute - 1) \div SecondsPerMinute

DurationMinutes(seconds) == seconds \div SecondsPerMinute

VARIABLES
    now,             \* the wall clock (instant)
    running,         \* FALSE once Bot.Close has run
    loc,             \* the voice channel each user is really in
    nEvents,         \* voice events delivered so far
    activeSessions,  \* Bot.activeSessions: user -> start instant
    lastVoiceEvent,  \* Bot.lastVoiceEvent: dedupe key -> instant
    studySessions,   \* study_sessions rows with end_time NULL, per user
    streaks,         \* user_streaks rows
    h,               \* the voice-state handler in flight
    worker,          \* voiceEventWorker: idle, a queued join, or stopped
    batch,           \* EvaluateAllUserStreaks in flight
    sent,            \* notifications sent by the last step
    undelivered,     \* notifications of the last step whose delivery failed
    checker,         \* SessionTimeoutChecker: position of the running pass
    delivered,       \* the voice event the gateway delivered last, this instant,
                     \* the session it found and whether it was dropped
    allowedVoiceChannelIDs, \* Bot.allowedVoiceChannelIDs, StreakService.trackedVoiceChannelIDs
    calendar,        \* two time.Time values handed to the calendar helpers, and the results
    \* History variables: they record what happened and steer nothing.
    dayStart,        \* current_streak_count of each user when the day began
    rowAtJoin,       \* the streak row as it was when the open session began
    evalLog,         \* evaluation runs of today with no streak write since,
                     \* and the users whose evaluation failed in the last run
    race             \* a leave accumulation begun while its user awaits evaluation

vars == <<now, running, loc, nEvents, activeSessions, lastVoiceEvent,
          studySessions, streaks, h, worker, batch, sent, undelivered, checker,
          delivered, allowedVoiceChannelIDs, calendar,
          dayStart, rowAtJoin, evalLog, race>>

history == <<dayStart, rowAtJoin, evalLog, race>>

\* SessionTimeoutChecker between two passes
IdleChecker == [pc |-> "idle", now |-> Null, pending |-> {}, u |-> "u1"]

(***************************************************************************)
(* user_streaks rows.                                                      *)
(***************************************************************************)
NoRow == [exists |-> FALSE, current_streak_count |-> 0, max_streak_count |-> 0,
          last_activity_date |-> Null, streak_evaluated_date |-> Null,
          daily_activity_minutes |-> 0, activity_start_time |-> Null,
          streak_incremented_today |-> FALSE, warning_notified_at |-> Null]

\* A row that existed before the calendar-day migration: counts reset,
\* dates NULL (src/unnamed/part_001, second migration).
MigratedRow == [NoRow EXCEPT !.exists = TRUE, !.max_streak_count = 1]

\* A row of a user with a running streak who was active and evaluated on day 0.
StreakRow == [NoRow EXCEPT !.exists = TRUE, !.current_streak_count = 2,
              !.max_streak_count = 2, !.last_activity_date = 0,
              !.streak_evaluated_date = 0, !.daily_activity_minutes = 50,
              !.activity_start_time = DateInstant(0) + 86160]

InitRows == {NoRow, MigratedRow, StreakRow}

Max(a, b) == IF a >= b THEN a ELSE b

\* GetTodayManilaDate
GetTodayManilaDate == ConvertToManilaDate(now)

\* HasActivityForDate (a NULL last_activity_date never equals $3)
HasActivityForDate(row, date, minutes) ==
    /\ row.exists
    /\ row.last_activity_date # Null
    /\ row.last_activity_date = date
    /\ row.daily_activity_minutes >= minutes

\* StartDailyActivity that keeps the stored minutes when the date changes
StartDailyActivity_keepMinutes(row, date, start) ==
    IF ~row.exists
    THEN [exists |-> TRUE, current_streak_count |-> 0, max_streak_count |-> 0,
          last_activity_date |-> date, streak_evaluated_date |-> Null,
          daily_activity_minutes |-> 0, activity_start_time |-> start,
          streak_incremented_today |-> FALSE, warning_notified_at |-> Null]
    ELSE [row EXCEPT
            !.last_activity_date =
                IF @ # Null /\ @ # date THEN date ELSE @,
            !.activity_start_time =
                IF row.last_activity_date # Null /\ row.last_activity_date # date
                THEN start ELSE IF @ = Null THEN start ELSE @,
            !.streak_incremented_today =
                IF row.last_activity_date # Null /\ row.last_activity_date # date
                THEN FALSE ELSE @]

\* StartDailyActivity that re-initialises the daily counters on every call
StartDailyActivity_alwaysResets(row, date, start) ==
    IF ~row.exists
    THEN [NoRow EXCEPT !.exists = TRUE, !.last_activity_date = date,
                       !.activity_start_time = start]
    ELSE [row EXCEPT !.last_activity_date = date,
                     !.daily_activity_minutes = 0,
                     !.activity_start_time = start,
                     !.streak_incremented_today = FALSE]

\* SQL: user_streaks.last_activity_date != $3 (NULL != $3 is not true)
DateDiffers(row, date) ==
    row.last_activity_date # Null /\ row.last_activity_date # date

\* StartDailyActivity: INSERT ... ON CONFLICT DO UPDATE
StartDailyActivity(row, date, start) ==
    IF ~row.exists
    THEN [NoRow EXCEPT !.exists = TRUE, !.last_activity_date = date,
                       !.activity_start_time = start]
    ELSE [row EXCEPT
            !.last_activity_date = IF DateDiffers(row, date) THEN date ELSE @,
            !.daily_activity_minutes = IF DateDiffers(row, date) THEN 0 ELSE @,
            !.activity_start_time =
                IF DateDiffers(row, date) THEN start
                ELSE IF @ = Null THEN start ELSE @,
            !.streak_incremented_today =
                IF DateDiffers(row, date) THEN FALSE ELSE @]

\* UpdateDailyActivityMinutes
UpdateDailyActivityMinutes(row, minutes) ==
    IF row.exists THEN [row EXCEPT !.daily_activity_minutes = minutes] ELSE row

\* UpdateUserStreakAfterEvaluation
UpdateUserStreakAfterEvaluation(row, cur, max, date) ==
    IF row.exists
    THEN [row EXCEPT !.current_streak_count = cur,
                     !.max_streak_count = Max(@, max),
                     !.streak_evaluated_date = date]
    ELSE row

\* UpdateStreakImmediately
UpdateStreakImmediately(row, cur, max) ==
    IF row.exists
    THEN [row EXCEPT !.current_streak_count = cur,
                     !.max_streak_count = Max(@, max),
                     !.streak_incremented_today = TRUE]
    ELSE row

\* GetUsersForDailyEvaluation selecting rows evaluated up to and including $1
NeedsEvaluation_inclusive(row, date) ==
    /\ row.exists
    /\ (row.streak_evaluated_date = Null \/ row.streak_evaluated_date <= date)

\* GetUsersForDailyEvaluation: WHERE clause
NeedsEvaluation(row, date) ==
    /\ row.exists
    /\ (row.streak_evaluated_date = Null \/ row.streak_evaluated_date < date)

(***************************************************************************)
(* Deduplication keys of Bot.isDuplicateVoiceEvent.                        *)
(***************************************************************************)
DedupeKeys == (Users \X {"join", "leave"} \X Channels) \cup
              (Users \X {"anyjoin"} \X {NoChannel})

IsJoin(before, after) == after # NoChannel /\ before # after

IsLeave(before, after) ==
    before # NoChannel /\ (after = NoChannel \/ after # before)

EventKeys(u, before, after) ==
    (IF IsJoin(before, after)
        THEN {<<u, "join", after>>, <<u, "anyjoin", NoChannel>>} ELSE {}) \cup
    (IF IsLeave(before, after) THEN {<<u, "leave", before>>} ELSE {})

\* isDuplicateVoiceEvent that looks at the leave keys only
isDuplicateVoiceEvent_leavesOnly(u, before, after) ==
    \E k \in EventKeys(u, before, after) :
        /\ k[2] = "leave"
        /\ lastVoiceEvent[k] # Null
        /\ now - lastVoiceEvent[k] < DedupeWindow

isDuplicateVoiceEvent(u, before, after) ==
    \E k \in EventKeys(u, before, after) :
        /\ lastVoiceEvent[k] # Null
        /\ now - lastVoiceEvent[k] < DedupeWindow

\* The map after a non-duplicate event: stamp the keys, evict old entries.
RecordVoiceEvent(u, before, after) ==
    [k \in DedupeKeys |->
        IF k \in EventKeys(u, before, after) THEN now
        ELSE IF lastVoiceEvent[k] # Null /\ now - lastVoiceEvent[k] > CleanupThreshold
             THEN Null
             ELSE lastVoiceEvent[k]]

(***************************************************************************)
(* Initial state: the process has just started; the database holds what    *)
(* earlier runs left: any of InitRows for u1, no row yet for u2.           *)
(***************************************************************************)
IdleHandler == [pc |-> "idle", u |-> "u1", before |-> NoChannel,
                after |-> NoChannel, minutes |-> 0, currentMinutes |-> 0,
                incremented |-> FALSE]

IdleWorker == [state |-> "idle", u |-> "u1", channel |-> NoChannel]

StoppedWorker == [IdleWorker EXCEPT !.state = "stopped"]

IdleBatch == [pc |-> "idle", today |-> Null, pending |-> {},
              rows |-> [u \in Users |-> NoRow]]

NoEvent == [copies |-> 0, u |-> "u1", before |-> NoChannel, after |-> NoChannel,
            found |-> NoSession, duplicate |-> FALSE]

NoTime == [sec |-> 0, zone |-> 0]

NoCalendar == [pc |-> "idle", t1 |-> NoTime, t2 |-> NoTime, date1 |-> NoTime,
               date2 |-> NoTime, again1 |-> NoTime, same |-> FALSE]

NoJoin == [fresh |-> FALSE, exists |-> FALSE, last_activity_date |-> Null,
           daily_activity_minutes |-> 0]

NoLog == [date |-> Null, runs |-> 0, failed |-> {}]

NoRace == [active |-> FALSE, u |-> "u1", row |-> NoRow, minutes |-> 0,
           today |-> Null]

Init ==
    /\ now = FirstInstant
    /\ running = TRUE
    /\ loc = [u \in Users |-> NoChannel]
    /\ nEvents = 0
    /\ activeSessions = [u \in Users |-> NoSession]
    /\ lastVoiceEvent = [k \in DedupeKeys |-> Null]
    /\ studySessions = [u \in Users |-> <<>>]
    /\ streaks \in {f \in [Users -> InitRows] : f["u2"] = NoRow}
    /\ h = IdleHandler
    /\ worker = IdleWorker
    /\ batch = IdleBatch
    /\ sent = {}
    /\ undelivered = {}
    /\ checker = IdleChecker
    /\ delivered = NoEvent
    /\ calendar = NoCalendar
    /\ allowedVoiceChannelIDs = AllowedVoiceChannelIDs
    /\ dayStart = [u \in Users |-> streaks[u].current_streak_count]
    /\ rowAtJoin = [u \in Users |-> NoJoin]
    /\ evalLog = NoLog
    /\ race = NoRace

(***************************************************************************)
(* The clock moves to the next instant.  A handler invocation, the join    *)
(* task it queues and an evaluation batch each complete within one clock   *)
(* granule: the clock does not move while one of them is in flight.        *)
(***************************************************************************)
Tick ==
    /\ running
    /\ h.pc = "idle"
    /\ worker.state # "task"
    /\ batch.pc = "idle"
    /\ \E t \in Instants :
        /\ t > now
        /\ \A t2 \in Instants : t2 > now => t <= t2
        /\ now' = t
        /\ dayStart' = IF ConvertToManilaDate(t) # ConvertToManilaDate(now)
                       THEN [u \in Users |-> streaks[u].current_streak_count]
                       ELSE dayStart
    /\ sent' = {}
    /\ undelivered' = {}
    /\ UNCHANGED checker
    /\ delivered' = NoEvent
    /\ UNCHANGED <<calendar, allowedVoiceChannelIDs,
                   running, loc, nEvents, activeSessions, lastVoiceEvent,
                   studySessions, streaks, h, worker, batch,
                   rowAtJoin, evalLog, race>>


(***************************************************************************)
(* Bot.handleVoiceStateUpdate, first part: deduplication, then the read    *)
(* phase of StreakService.HandleVoiceLeave (session start time from the    *)
(* bot, GetUserStreak).  The gateway delivers the event of user u moving   *)
(* from the channel u is in to another channel (or out of voice).          *)
(***************************************************************************)

\* HandleVoiceLeave returns before UpdateDailyActivityMinutes
LeaveReturnsEarly(u) ==
    \/ activeSessions[u] = NoSession
    \/ DurationMinutes(now - activeSessions[u]) < 1
    \/ ~streaks[u].exists
    \/ streaks[u].last_activity_date = Null
    \/ streaks[u].last_activity_date # GetTodayManilaDate

\* handleVoiceStateUpdate that stamps the keys of a duplicate before it returns
handleVoiceStateUpdate_stampsDuplicate(u, before, after) ==
    /\ running
    /\ h.pc = "idle"
    /\ nEvents < MaxEvents
    /\ nEvents' = nEvents + 1
    /\ sent' = {}
    /\ undelivered' = {}
    /\ UNCHANGED checker
    /\ IF isDuplicateVoiceEvent(u, before, after)
       THEN /\ lastVoiceEvent' = RecordVoiceEvent(u, before, after)
            /\ UNCHANGED <<h, race>>
       ELSE /\ lastVoiceEvent' = RecordVoiceEvent(u, before, after)
            /\ race' = IF IsLeave(before, after) /\ ~LeaveReturnsEarly(u)
                       THEN IF /\ batch.pc = "evaluate"
                               /\ u \in batch.pending
                               /\ batch.rows[u] = streaks[u]
                            THEN [active |-> TRUE, u |-> u, row |-> streaks[u],
                                  minutes |-> DurationMinutes(now - activeSessions[u]),
                                  today |-> batch.today]
                            ELSE NoRace
                       ELSE race
            /\ h' = IF IsLeave(before, after) /\ ~LeaveReturnsEarly(u)
                    THEN [pc |-> "minutes", u |-> u, before |-> before,
                          after |-> after,
                          minutes |-> DurationMinutes(now - activeSessions[u]),
                          currentMinutes |-> streaks[u].daily_activity_minutes,
                          incremented |-> streaks[u].streak_incremented_today]
                    ELSE [IdleHandler EXCEPT !.pc = "session", !.u = u,
                          !.before = before, !.after = after]
    /\ UNCHANGED <<calendar, allowedVoiceChannelIDs,
                   now, running, activeSessions, studySessions, streaks,
                   worker, batch, dayStart, rowAtJoin, evalLog>>

handleVoiceStateUpdate(u, before, after) ==
    /\ running
    /\ h.pc = "idle"
    /\ nEvents < MaxEvents
    /\ nEvents' = nEvents + 1
    /\ sent' = {}
    /\ undelivered' = {}
    /\ UNCHANGED checker
    /\ IF isDuplicateVoiceEvent(u, before, after)
       THEN UNCHANGED <<lastVoiceEvent, h, race>>
       ELSE /\ lastVoiceEvent' = RecordVoiceEvent(u, before, after)
            /\ race' = IF IsLeave(before, after) /\ ~LeaveReturnsEarly(u)
                       THEN IF /\ batch.pc = "evaluate"
                               /\ u \in batch.pending
                               /\ batch.rows[u] = streaks[u]
                            THEN [active |-> TRUE, u |-> u, row |-> streaks[u],
                                  minutes |-> DurationMinutes(now - activeSessions[u]),
                                  today |-> batch.today]
                            ELSE NoRace
                       ELSE race
            /\ h' = IF IsLeave(before, after) /\ ~LeaveReturnsEarly(u)
                    THEN [pc |-> "minutes", u |-> u, before |-> before,
                          after |-> after,
                          minutes |-> DurationMinutes(now - activeSessions[u]),
                          currentMinutes |-> streaks[u].daily_activity_minutes,
                          incremented |-> streaks[u].streak_incremented_today]
                    ELSE [IdleHandler EXCEPT !.pc = "session", !.u = u,
                          !.before = before, !.after = after]
    /\ UNCHANGED <<calendar, allowedVoiceChannelIDs,
                   now, running, activeSessions, studySessions, streaks,
                   worker, batch, dayStart, rowAtJoin, evalLog>>

\* The user moves to another channel (or out of voice) and the gateway
\* delivers the event.
VoiceStateChange(u, after) ==
    /\ after # loc[u]
    /\ handleVoiceStateUpdate(u, loc[u], after)
    /\ loc' = [loc EXCEPT ![u] = after]
    /\ delivered' = [copies |-> 1, u |-> u, before |-> loc[u], after |-> after,
                     found |-> activeSessions[u],
                     duplicate |-> isDuplicateVoiceEvent(u, loc[u], after)]

\* The gateway delivers the last event a second time, within the same
\* clock granule (less than DedupeWindow after the first delivery).
VoiceStateRedelivery ==
    /\ delivered.copies = 1
    /\ handleVoiceStateUpdate(delivered.u, delivered.before, delivered.after)
    /\ delivered' = [delivered EXCEPT !.copies = 2]
    /\ UNCHANGED loc



\* HandleVoiceLeave that notifies on every leave that ends at or above the minimum
LeaveUpdateMinutes_everyLeave ==
    /\ h.pc = "minutes"
    /\ LET newTotalMinutes == h.currentMinutes + h.minutes
       IN /\ streaks' = [streaks EXCEPT ![h.u] =
                            UpdateDailyActivityMinutes(@, newTotalMinutes)]
          /\ h' = [h EXCEPT !.pc =
                    IF newTotalMinutes >= minimumActivityMinutes
                    THEN "immediate" ELSE "session"]
    /\ sent' = {}
    /\ undelivered' = {}
    /\ UNCHANGED checker
    /\ evalLog' = NoLog
    /\ UNCHANGED <<calendar, allowedVoiceChannelIDs,
                   delivered, now, running, loc, nEvents, activeSessions, lastVoiceEvent,
                   studySessions, worker, batch, dayStart, rowAtJoin, race>>

\* HandleVoiceLeave that removes the session from the bot's map itself
LeaveUpdateMinutes_endsSession ==
    /\ h.pc = "minutes"
    /\ LET newTotalMinutes == h.currentMinutes + h.minutes
       IN /\ streaks' = [streaks EXCEPT ![h.u] =
                            UpdateDailyActivityMinutes(@, newTotalMinutes)]
          /\ h' = [h EXCEPT !.pc =
                    IF /\ h.currentMinutes < minimumActivityMinutes
                       /\ newTotalMinutes >= minimumActivityMinutes
                       /\ ~h.incremented
                    THEN "immediate" ELSE "session"]
    /\ activeSessions' = [activeSessions EXCEPT ![h.u] = NoSession]
    /\ sent' = {}
    /\ undelivered' = {}
    /\ UNCHANGED checker
    /\ evalLog' = NoLog
    /\ UNCHANGED <<calendar, allowedVoiceChannelIDs,
                   delivered, now, running, loc, nEvents, lastVoiceEvent,
                   studySessions, worker, batch, dayStart, rowAtJoin, race>>

(***************************************************************************)
(* HandleVoiceLeave, write phase: UpdateDailyActivityMinutes with the      *)
(* total computed from the row read before.                                *)
(***************************************************************************)
LeaveUpdateMinutes ==
    /\ h.pc = "minutes"
    /\ LET newTotalMinutes == h.currentMinutes + h.minutes
       IN /\ streaks' = [streaks EXCEPT ![h.u] =
                            UpdateDailyActivityMinutes(@, newTotalMinutes)]
          /\ h' = [h EXCEPT !.pc =
                    IF /\ h.currentMinutes < minimumActivityMinutes
                       /\ newTotalMinutes >= minimumActivityMinutes
                       /\ ~h.incremented
                    THEN "immediate" ELSE "session"]
    /\ sent' = {}
    /\ undelivered' = {}
    /\ UNCHANGED checker
    /\ evalLog' = NoLog
    /\ UNCHANGED <<calendar, allowedVoiceChannelIDs,
                   delivered, now, running, loc, nEvents, activeSessions, lastVoiceEvent,
                   studySessions, worker, batch, dayStart, rowAtJoin, race>>

(***************************************************************************)
(* StreakService.processImmediateStreakUpdate: GetUserStreak, then         *)
(* UpdateStreakImmediately, then the completion notification.              *)
(***************************************************************************)
ImmediateStreak(row) ==
    IF row.current_streak_count = 0 THEN 1 ELSE row.current_streak_count + 1

processImmediateStreakUpdate ==
    /\ h.pc = "immediate"
    /\ LET row == streaks[h.u]
           newStreak == ImmediateStreak(row)
           newMaxStreak == Max(row.max_streak_count, newStreak)
       IN /\ streaks' = [streaks EXCEPT ![h.u] =
                            UpdateStreakImmediately(@, newStreak, newMaxStreak)]
          /\ sent' = {<<"activity_completed", h.u, newStreak>>}
          /\ undelivered' = {}
          /\ UNCHANGED checker
    /\ h' = [h EXCEPT !.pc = "session"]
    /\ evalLog' = NoLog
    /\ UNCHANGED <<calendar, allowedVoiceChannelIDs,
                   delivered, now, running, loc, nEvents, activeSessions, lastVoiceEvent,
                   studySessions, worker, batch, dayStart, rowAtJoin, race>>

(***************************************************************************)
(* Bot.handleVoiceStateUpdate, second part: hand the join task to the      *)
(* worker (an unbuffered channel: the send waits until the worker          *)
(* receives), then the study-session logic on the in-memory map.           *)
(***************************************************************************)

\* handleUserJoinedStudySession: the map and the open rows afterwards.
\* i is the open row that GetActiveStudySession returns (LIMIT 1, no order).
JoinedSkips(u) ==
    /\ activeSessions[u] # NoSession
    /\ now - activeSessions[u] < RecentSessionWindow

RemoveAt(seq, i) == [j \in 1..(Len(seq) - 1) |-> IF j < i THEN seq[j] ELSE seq[j + 1]]

\* handleUserJoinedStudySession without the 10 second window
handleUserJoinedStudySession_alwaysReplaces(u, i) ==
    /\ activeSessions' = [activeSessions EXCEPT ![u] = now]
    /\ studySessions' = [studySessions EXCEPT ![u] =
          Append(IF Len(@) = 0 THEN @ ELSE RemoveAt(@, i), now)]

handleUserJoinedStudySession(u, i) ==
    IF JoinedSkips(u)
    THEN UNCHANGED <<activeSessions, studySessions>>
    ELSE /\ activeSessions' = [activeSessions EXCEPT ![u] = now]
         /\ studySessions' = [studySessions EXCEPT ![u] =
               Append(IF Len(@) = 0 THEN @ ELSE RemoveAt(@, i), now)]

\* handleUserLeftStudySession that ends the database session and keeps the
\* map entry
handleUserLeftStudySession_noDelete(u, i) ==
    IF activeSessions[u] = NoSession
    THEN UNCHANGED <<activeSessions, studySessions>>
    ELSE /\ UNCHANGED activeSessions
         /\ studySessions' = [studySessions EXCEPT ![u] =
               IF Len(@) = 0 THEN @ ELSE RemoveAt(@, i)]

\* handleUserLeftStudySession
handleUserLeftStudySession(u, i) ==
    IF activeSessions[u] = NoSession
    THEN UNCHANGED <<activeSessions, studySessions>>
    ELSE /\ activeSessions' = [activeSessions EXCEPT ![u] = NoSession]
         /\ studySessions' = [studySessions EXCEPT ![u] =
               IF Len(@) = 0 THEN @ ELSE RemoveAt(@, i)]

OpenRowChoices(u) ==
    IF Len(studySessions[u]) = 0 THEN {1} ELSE 1..Len(studySessions[u])

StudySessionLogic ==
    /\ h.pc = "session"
    /\ LET u == h.u
           userWasInTrackedSession == activeSessions[u] # NoSession
           userJoinedNewChannel == IsJoin(h.before, h.after)
           completelyLeftVoice == h.after = NoChannel /\ h.before # NoChannel
           newChannelIsTracked == h.after \in allowedVoiceChannelIDs
           oldChannelWasTracked == h.before \in allowedVoiceChannelIDs
       IN /\ IF userJoinedNewChannel
             THEN /\ worker.state = "idle"
                  /\ worker' = [state |-> "task", u |-> u, channel |-> h.after]
             ELSE UNCHANGED worker
          /\ \E i \in OpenRowChoices(u) :
               IF userJoinedNewChannel
               THEN IF newChannelIsTracked
                    THEN IF ~userWasInTrackedSession
                         THEN handleUserJoinedStudySession(u, i)
                         ELSE IF oldChannelWasTracked
                              THEN UNCHANGED <<activeSessions, studySessions>>
                              ELSE handleUserJoinedStudySession(u, i)
                    ELSE IF userWasInTrackedSession
                         THEN handleUserLeftStudySession(u, i)
                         ELSE UNCHANGED <<activeSessions, studySessions>>
               ELSE IF completelyLeftVoice /\ userWasInTrackedSession
                                            /\ oldChannelWasTracked
                    THEN handleUserLeftStudySession(u, i)
                    ELSE UNCHANGED <<activeSessions, studySessions>>
    /\ rowAtJoin' = [rowAtJoin EXCEPT ![h.u] =
            IF activeSessions'[h.u] # NoSession
               /\ activeSessions'[h.u] # activeSessions[h.u]
            THEN [fresh |-> TRUE, exists |-> streaks[h.u].exists,
                  last_activity_date |-> streaks[h.u].last_activity_date,
                  daily_activity_minutes |-> streaks[h.u].daily_activity_minutes]
            ELSE NoJoin]
    /\ h' = IdleHandler
    /\ sent' = {}
    /\ undelivered' = {}
    /\ UNCHANGED checker
    /\ UNCHANGED <<calendar, allowedVoiceChannelIDs,
                   delivered, now, running, loc, nEvents, lastVoiceEvent, streaks, batch,
                   dayStart, evalLog, race>>

(***************************************************************************)
(* voiceEventWorker runs the queued task: StreakService.HandleVoiceJoin.   *)
(***************************************************************************)
HandleVoiceJoin(u, voiceChannelID) ==
    IF \/ voiceChannelID = NoChannel
       \/ voiceChannelID \notin allowedVoiceChannelIDs
       \/ HasActivityForDate(streaks[u], GetTodayManilaDate, minimumActivityMinutes)
    THEN UNCHANGED streaks
    ELSE streaks' = [streaks EXCEPT ![u] =
                        StartDailyActivity(@, GetTodayManilaDate, now)]

voiceEventWorker ==
    /\ worker.state = "task"
    /\ HandleVoiceJoin(worker.u, worker.channel)
    /\ worker' = IF running THEN IdleWorker ELSE StoppedWorker
    /\ sent' = {}
    /\ undelivered' = {}
    /\ UNCHANGED checker
    /\ evalLog' = IF streaks' = streaks THEN evalLog ELSE NoLog
    /\ race' = IF streaks' = streaks THEN race ELSE NoRace
    /\ UNCHANGED <<calendar, allowedVoiceChannelIDs,
                   delivered, now, running, loc, nEvents, activeSessions, lastVoiceEvent,
                   studySessions, h, batch, dayStart, rowAtJoin>>

(***************************************************************************)
(* StreakService.EvaluateAllUserStreaks, started by the cron job of        *)
(* 23:59 Manila time: ResetAllStreakDailyFlags, then                       *)
(* GetUsersForDailyEvaluation; the rows fetched are evaluated one by one.  *)
(***************************************************************************)
EvaluateAllUserStreaks ==
    /\ running
    /\ batch.pc = "idle"
    /\ ManilaSecondOfDay(now) = EvaluationSecond
    /\ LET todayDate == GetTodayManilaDate
           reset == [u \in Users |->
                        IF streaks[u].exists
                        THEN [streaks[u] EXCEPT !.streak_incremented_today = FALSE]
                        ELSE streaks[u]]
           users == {u \in Users : NeedsEvaluation(reset[u], todayDate)}
       IN /\ streaks' = reset
          /\ batch' = IF users = {} THEN IdleBatch
                      ELSE [pc |-> "evaluate", today |-> todayDate,
                            pending |-> users,
                            rows |-> [u \in Users |->
                                        IF u \in users THEN reset[u] ELSE NoRow]]
    /\ sent' = {}
    /\ undelivered' = {}
    /\ UNCHANGED checker
    /\ evalLog' = IF evalLog.date = GetTodayManilaDate
                  THEN [evalLog EXCEPT !.runs = IF @ < 2 THEN @ + 1 ELSE @,
                                       !.failed = {}]
                  ELSE [date |-> GetTodayManilaDate, runs |-> 1, failed |-> {}]
    /\ race' = NoRace
    /\ UNCHANGED <<calendar, allowedVoiceChannelIDs,
                   delivered, now, running, loc, nEvents, activeSessions, lastVoiceEvent,
                   studySessions, h, worker, dayStart, rowAtJoin>>

\* hasActivityToday that does not look at the date
hasActivityToday_anyDate(user, todayDate) ==
    /\ user.last_activity_date # Null
    /\ user.daily_activity_minutes >= minimumActivityMinutes

\* hasActivityToday that needs more than the minimum
hasActivityToday_strict(user, todayDate) ==
    /\ user.last_activity_date # Null
    /\ user.last_activity_date = todayDate
    /\ user.daily_activity_minutes > minimumActivityMinutes

\* evaluateUserStreakForToday: the decision taken from the fetched row
hasActivityToday(user, todayDate) ==
    /\ user.last_activity_date # Null
    /\ user.last_activity_date = todayDate
    /\ user.daily_activity_minutes >= minimumActivityMinutes

\* newStreakCount that restarts at 1 on every active day
newStreakCount_restart(user, todayDate) ==
    IF hasActivityToday(user, todayDate) THEN 1 ELSE 0

newStreakCount(user, todayDate) ==
    IF hasActivityToday(user, todayDate)
    THEN IF user.current_streak_count = 0 THEN 1
         ELSE user.current_streak_count + 1
    ELSE 0

\* newMaxStreak that is never raised to the new count
newMaxStreak_notRaised(user, todayDate) == user.max_streak_count

newMaxStreak(user, todayDate) ==
    Max(user.max_streak_count, newStreakCount(user, todayDate))

\* markUserEvaluated that writes nothing
markUserEvaluated_noWrite(row, todayDate) == row

\* markUserEvaluated: GetUserStreak, then write the counts just read
markUserEvaluated(row, todayDate) ==
    UpdateUserStreakAfterEvaluation(row, row.current_streak_count,
                                    row.max_streak_count, todayDate)

\* The row that evaluateUserStreakForToday leaves, given the fetched row
\* (user) and the row stored at the time of the write (row).
EvaluationWrite(user, row, todayDate) ==
    IF ~hasActivityToday(user, todayDate) /\ user.current_streak_count = 0
    THEN markUserEvaluated(row, todayDate)
    ELSE UpdateUserStreakAfterEvaluation(row, newStreakCount(user, todayDate),
                                         newMaxStreak(user, todayDate), todayDate)

EvaluationNotice(u, user, todayDate) ==
    IF hasActivityToday(user, todayDate)
    THEN IF user.current_streak_count = 0
         THEN {<<"streak_started", u, 1>>}
         ELSE {<<"streak_continued", u, newStreakCount(user, todayDate)>>}
    ELSE IF user.current_streak_count > 0
         THEN {<<"streak_ended", u, user.current_streak_count>>}
         ELSE {}

evaluateUserStreakForToday(u) ==
    /\ batch.pc = "evaluate"
    /\ u \in batch.pending
    /\ streaks' = [streaks EXCEPT ![u] =
                        EvaluationWrite(batch.rows[u], @, batch.today)]
    /\ sent' = EvaluationNotice(u, batch.rows[u], batch.today)
    /\ undelivered' = {}
    /\ UNCHANGED checker
    /\ batch' = IF batch.pending = {u} THEN IdleBatch
                ELSE [batch EXCEPT !.pending = @ \ {u},
                                   !.rows = [@ EXCEPT ![u] = NoRow]]
    /\ UNCHANGED <<calendar, allowedVoiceChannelIDs,
                   delivered, now, running, loc, nEvents, activeSessions, lastVoiceEvent,
                   studySessions, h, worker, history>>

(***************************************************************************)
(* Bot.Close: the shutdown signal, then endAllActiveSessions under the     *)
(* session mutex.  main stops the cron schedulers (and waits for a running *)
(* job) before it calls Close.                                             *)
(***************************************************************************)
endAllActiveSessions ==
    /\ activeSessions' = [u \in Users |->
            IF activeSessions[u] # NoSession /\ Len(studySessions[u]) = 0
            THEN activeSessions[u] ELSE NoSession]
    /\ \E pick \in [Users -> 1..3] :
            studySessions' = [u \in Users |->
                IF activeSessions[u] # NoSession /\ Len(studySessions[u]) > 0
                THEN RemoveAt(studySessions[u],
                              IF pick[u] <= Len(studySessions[u]) THEN pick[u] ELSE 1)
                ELSE studySessions[u]]

Close ==
    /\ running
    /\ batch.pc = "idle"
    /\ running' = FALSE
    /\ worker' = IF worker.state = "idle" THEN StoppedWorker ELSE worker
    /\ endAllActiveSessions
    /\ sent' = {}
    /\ undelivered' = {}
    /\ UNCHANGED checker
    /\ UNCHANGED <<calendar, allowedVoiceChannelIDs,
                   delivered, now, loc, nEvents, lastVoiceEvent, streaks, h, batch, history>>

Next ==
    \/ Tick
    \/ \E u \in Users, after \in Channels \cup {NoChannel} :
            VoiceStateChange(u, after)
    \/ VoiceStateRedelivery
    \/ LeaveUpdateMinutes
    \/ processImmediateStreakUpdate
    \/ StudySessionLogic
    \/ voiceEventWorker
    \/ EvaluateAllUserStreaks
    \/ \E u \in Users : evaluateUserStreakForToday(u)
    \/ Close

Spec == Init /\ [][Next]_vars

(***************************************************************************)
(* The daily evaluation alone, at 23:59 of day 1, on a store that holds    *)
(* one row of u1 drawn from EvaluationRows: no voice event, no shutdown.   *)
(***************************************************************************)
MinutesChoices == {0, minimumActivityMinutes, minimumActivityMinutes + 1, 50}

EvaluationRows ==
    { [exists |-> TRUE, current_streak_count |-> n, max_streak_count |-> n + m,
       last_activity_date |-> d, streak_evaluated_date |-> e,
       daily_activity_minutes |-> k, activity_start_time |-> Null,
       streak_incremented_today |-> FALSE, warning_notified_at |-> Null] :
         n \in 0..MaxStreak, m \in {0, 1}, d \in {Null, 0, 1},
         e \in {Null, 0}, k \in MinutesChoices }

InitEvaluation ==
    /\ now = DateInstant(1) + EvaluationSecond
    /\ running = TRUE
    /\ loc = [u \in Users |-> NoChannel]
    /\ nEvents = 0
    /\ activeSessions = [u \in Users |-> NoSession]
    /\ lastVoiceEvent = [k \in DedupeKeys |-> Null]
    /\ studySessions = [u \in Users |-> <<>>]
    /\ streaks \in {f \in [Users -> EvaluationRows \cup {NoRow}] :
                        f["u1"] # NoRow /\ f["u2"] = NoRow}
    /\ h = IdleHandler
    /\ worker = IdleWorker
    /\ batch = IdleBatch
    /\ sent = {}
    /\ undelivered = {}
    /\ checker = IdleChecker
    /\ delivered = NoEvent
    /\ calendar = NoCalendar
    /\ allowedVoiceChannelIDs = AllowedVoiceChannelIDs
    /\ dayStart = [u \in Users |-> streaks[u].current_streak_count]
    /\ rowAtJoin = [u \in Users |-> NoJoin]
    /\ evalLog = NoLog
    /\ race = NoRace

NextEvaluation ==
    \/ EvaluateAllUserStreaks
    \/ \E u \in Users : evaluateUserStreakForToday(u)

SpecEvaluation == InitEvaluation /\ [][NextEvaluation]_vars

(***************************************************************************)
(* The daily evaluation with persistence errors.  UpdateUserStreakAfter-   *)
(* Evaluation (or the GetUserStreak of markUserEvaluated) fails for one    *)
(* user: evaluateUserStreakForToday returns the error before it sends any  *)
(* embed, EvaluateAllUserStreaks logs it and continues with the next user. *)
(* Both users hold a row at 23:59 of day 1; the job runs again at 23:59 of *)
(* the next day.                                                           *)
(***************************************************************************)

\* the loop of EvaluateAllUserStreaks returning at the first error
evaluateUserStreakForTodayFails_abandonsBatch(u) ==
    /\ batch.pc = "evaluate"
    /\ u \in batch.pending
    /\ batch' = IdleBatch
    /\ evalLog' = [evalLog EXCEPT !.failed = @ \cup {u}]
    /\ sent' = {}
    /\ undelivered' = {}
    /\ UNCHANGED checker
    /\ UNCHANGED <<calendar, allowedVoiceChannelIDs,
                   delivered, now, running, loc, nEvents, activeSessions, lastVoiceEvent,
                   studySessions, streaks, h, worker, dayStart, rowAtJoin, race>>

\* evaluateUserStreakForToday returns an error; the loop continues
evaluateUserStreakForTodayFails(u) ==
    /\ batch.pc = "evaluate"
    /\ u \in batch.pending
    /\ batch' = IF batch.pending = {u} THEN IdleBatch
                ELSE [batch EXCEPT !.pending = @ \ {u},
                                   !.rows = [@ EXCEPT ![u] = NoRow]]
    /\ evalLog' = [evalLog EXCEPT !.failed = @ \cup {u}]
    /\ sent' = {}
    /\ undelivered' = {}
    /\ UNCHANGED checker
    /\ UNCHANGED <<calendar, allowedVoiceChannelIDs,
                   delivered, now, running, loc, nEvents, activeSessions, lastVoiceEvent,
                   studySessions, streaks, h, worker, dayStart, rowAtJoin, race>>

\* the clock reaches 23:59 of the next day; nobody was in voice in between
NextEvaluationTime ==
    /\ batch.pc = "idle"
    /\ evalLog.date = GetTodayManilaDate
    /\ GetTodayManilaDate < MaxDay
    /\ now' = now + SecondsPerDay
    /\ dayStart' = [u \in Users |-> streaks[u].current_streak_count]
    /\ sent' = {}
    /\ undelivered' = {}
    /\ UNCHANGED checker
    /\ UNCHANGED <<calendar, allowedVoiceChannelIDs, delivered, running, loc,
                   nEvents, activeSessions, lastVoiceEvent, studySessions,
                   streaks, h, worker, batch, rowAtJoin, evalLog, race>>

\* rows at 23:59 of day 1: a streak or none, active never, yesterday or today
FailureRows ==
    { [exists |-> TRUE, current_streak_count |-> n, max_streak_count |-> 2,
       last_activity_date |-> d, streak_evaluated_date |-> e,
       daily_activity_minutes |-> k, activity_start_time |-> Null,
       streak_incremented_today |-> FALSE, warning_notified_at |-> Null] :
         n \in {0, 2}, d \in {Null, 0, 1}, e \in {Null, 0},
         k \in {0, minimumActivityMinutes} }

InitEvaluationFailures ==
    /\ now = DateInstant(1) + EvaluationSecond
    /\ running = TRUE
    /\ loc = [u \in Users |-> NoChannel]
    /\ nEvents = 0
    /\ activeSessions = [u \in Users |-> NoSession]
    /\ lastVoiceEvent = [k \in DedupeKeys |-> Null]
    /\ studySessions = [u \in Users |-> <<>>]
    /\ streaks \in [Users -> FailureRows]
    /\ h = IdleHandler
    /\ worker = IdleWorker
    /\ batch = IdleBatch
    /\ sent = {}
    /\ undelivered = {}
    /\ checker = IdleChecker
    /\ delivered = NoEvent
    /\ calendar = NoCalendar
    /\ allowedVoiceChannelIDs = AllowedVoiceChannelIDs
    /\ dayStart = [u \in Users |-> streaks[u].current_streak_count]
    /\ rowAtJoin = [u \in Users |-> NoJoin]
    /\ evalLog = NoLog
    /\ race = NoRace

NextEvaluationFailures ==
    \/ EvaluateAllUserStreaks
    \/ \E u \in Users : evaluateUserStreakForToday(u)
    \/ \E u \in Users : evaluateUserStreakForTodayFails(u)
    \/ NextEvaluationTime

SpecEvaluationFailures == InitEvaluationFailures /\ [][NextEvaluationFailures]_vars

(***************************************************************************)
(* The program with failing calls on the leave path: the database call     *)
(* UpdateDailyActivityMinutes, the database calls GetActiveStudySession    *)
(* and EndStudySession of handleUserLeftStudySession, and the Discord call *)
(* s.User whose nil result handleUserLeftStudySession dereferences.        *)
(* CreateOrUpdateUserStats only logs its error, so its failure is the      *)
(* successful path of StudySessionLogic.                                   *)
(***************************************************************************)

\* the decision of handleVoiceStateUpdate calls handleUserLeftStudySession
CallsUserLeftStudySession ==
    /\ h.pc = "session"
    /\ activeSessions[h.u] # NoSession
    /\ \/ IsJoin(h.before, h.after) /\ h.after \notin allowedVoiceChannelIDs
       \/ /\ h.after = NoChannel
          /\ h.before \in allowedVoiceChannelIDs

\* HandleVoiceLeave returns the error of UpdateDailyActivityMinutes; the
\* handler logs it and goes on to the study-session logic.
LeaveUpdateMinutesFails ==
    /\ h.pc = "minutes"
    /\ h' = [h EXCEPT !.pc = "session"]
    /\ sent' = {}
    /\ undelivered' = {}
    /\ UNCHANGED checker
    /\ UNCHANGED <<calendar, allowedVoiceChannelIDs,
                   delivered, now, running, loc, nEvents, activeSessions,
                   lastVoiceEvent, studySessions, streaks, worker, batch,
                   history>>

\* a failing path of handleUserLeftStudySession that returns without the delete
handleUserLeftStudySessionFails_keepsEntry(u) ==
    UNCHANGED <<activeSessions, studySessions>>

\* handleUserLeftStudySession when GetActiveStudySession or EndStudySession
\* fails: the entry is deleted, the open row stays.
handleUserLeftStudySessionFails(u) ==
    /\ activeSessions' = [activeSessions EXCEPT ![u] = NoSession]
    /\ UNCHANGED studySessions

StudySessionLogicFails ==
    /\ CallsUserLeftStudySession
    /\ Len(studySessions[h.u]) > 0
    /\ IF IsJoin(h.before, h.after)
       THEN /\ worker.state = "idle"
            /\ worker' = [state |-> "task", u |-> h.u, channel |-> h.after]
       ELSE UNCHANGED worker
    /\ handleUserLeftStudySessionFails(h.u)
    /\ rowAtJoin' = [rowAtJoin EXCEPT ![h.u] = NoJoin]
    /\ h' = IdleHandler
    /\ sent' = {}
    /\ undelivered' = {}
    /\ UNCHANGED checker
    /\ UNCHANGED <<calendar, allowedVoiceChannelIDs,
                   delivered, now, running, loc, nEvents, lastVoiceEvent,
                   streaks, batch, dayStart, evalLog, race>>

\* s.User failed and handleUserLeftStudySession reads user.ID of the nil
\* user: the goroutine panics and the process ends, its memory with it.
StudySessionLogicPanics ==
    /\ CallsUserLeftStudySession
    /\ running' = FALSE
    /\ activeSessions' = [u \in Users |-> NoSession]
    /\ lastVoiceEvent' = [k \in DedupeKeys |-> Null]
    /\ h' = IdleHandler
    /\ worker' = StoppedWorker
    /\ batch' = IdleBatch
    /\ sent' = {}
    /\ undelivered' = {}
    /\ UNCHANGED checker
    /\ UNCHANGED <<calendar, allowedVoiceChannelIDs,
                   delivered, now, loc, nEvents, studySessions, streaks,
                   history>>

\* The voice handlers, the worker, the clock and the shutdown; the daily
\* evaluation does not touch the session map and is left out.
NextFailures ==
    \/ Tick
    \/ \E u \in Users, after \in Channels \cup {NoChannel} :
            VoiceStateChange(u, after)
    \/ LeaveUpdateMinutes
    \/ processImmediateStreakUpdate
    \/ StudySessionLogic
    \/ voiceEventWorker
    \/ Close
    \/ LeaveUpdateMinutesFails
    \/ StudySessionLogicFails
    \/ StudySessionLogicPanics

SpecFailures == Init /\ [][NextFailures]_vars

(***************************************************************************)
(* The voice handlers, the worker and the shutdown under the scheduling of *)
(* the Go runtime: a goroutine that can take its next step takes it, and a *)
(* database call returns.  The handler hands its join task to the worker   *)
(* over the unbuffered voiceEventChan, so that step waits for the worker   *)
(* to receive; the worker returns for good once shutdownChan is closed.    *)
(***************************************************************************)
NextShutdown ==
    \/ Tick
    \/ \E u \in Users, after \in Channels \cup {NoChannel} :
            VoiceStateChange(u, after)
    \/ LeaveUpdateMinutes
    \/ processImmediateStreakUpdate
    \/ StudySessionLogic
    \/ voiceEventWorker
    \/ Close

SpecShutdown ==
    /\ Init
    /\ [][NextShutdown]_vars
    /\ WF_vars(LeaveUpdateMinutes)
    /\ WF_vars(processImmediateStreakUpdate)
    /\ WF_vars(StudySessionLogic)
    /\ WF_vars(voiceEventWorker)

(***************************************************************************)
(* The program started with no tracked channel configured:                 *)
(* ALLOWED_VOICE_CHANNEL_IDS unset or empty, so parseChannelIDs returns an *)
(* empty map and Bot.New and NewStreakService copy it.  No session is ever *)
(* opened, so the write steps of HandleVoiceLeave have nothing to do and   *)
(* are not steps of this specification.                                    *)
(***************************************************************************)
\* parseChannelIDs on the comma-separated fields of the raw value, trimmed:
\* the set of the non-empty fields.
parseChannelIDs(fields) == {fields[i] : i \in 1..Len(fields)} \ {""}

\* raw values with no channel id: unset, blank, a lone comma
UnconfiguredRawIDs == {<<>>, <<"">>, <<"", "">>}

InitUnconfigured ==
    /\ now = FirstInstant
    /\ running = TRUE
    /\ loc = [u \in Users |-> NoChannel]
    /\ nEvents = 0
    /\ activeSessions = [u \in Users |-> NoSession]
    /\ lastVoiceEvent = [k \in DedupeKeys |-> Null]
    /\ studySessions = [u \in Users |-> <<>>]
    /\ streaks \in {f \in [Users -> InitRows] : f["u2"] = NoRow}
    /\ h = IdleHandler
    /\ worker = IdleWorker
    /\ batch = IdleBatch
    /\ sent = {}
    /\ undelivered = {}
    /\ checker = IdleChecker
    /\ delivered = NoEvent
    /\ calendar = NoCalendar
    /\ allowedVoiceChannelIDs \in {parseChannelIDs(r) : r \in UnconfiguredRawIDs}
    /\ dayStart = [u \in Users |-> streaks[u].current_streak_count]
    /\ rowAtJoin = [u \in Users |-> NoJoin]
    /\ evalLog = NoLog
    /\ race = NoRace

NextUnconfigured ==
    \/ Tick
    \/ \E u \in Users, after \in Channels \cup {NoChannel} :
            VoiceStateChange(u, after)
    \/ VoiceStateRedelivery
    \/ StudySessionLogic
    \/ voiceEventWorker
    \/ EvaluateAllUserStreaks
    \/ \E u \in Users : evaluateUserStreakForToday(u)
    \/ Close

SpecUnconfigured == InitUnconfigured /\ [][NextUnconfigured]_vars

(***************************************************************************)
(* Two handlers of one user at once.  The gateway library starts every     *)
(* handler invocation in a goroutine of its own, so the handler of a later *)
(* event can run while an earlier one is still in flight.  Here the study  *)
(* session logic of the handler in flight is two steps, as in the code:    *)
(* the read of the map under activeSessionMu (lines 559-561) with the      *)
(* decision, then the callee that takes the mutex again; and the handler   *)
(* of a user's next join may run from start to end in between.             *)
(***************************************************************************)

\* the callee that lines 584-607 choose: "joined", "left", or "idle" for none
StudySessionDecision(userWasInTrackedSession, before, after) ==
    LET userJoinedNewChannel == IsJoin(before, after)
        completelyLeftVoice == after = NoChannel /\ before # NoChannel
        newChannelIsTracked == after \in allowedVoiceChannelIDs
        oldChannelWasTracked == before \in allowedVoiceChannelIDs
    IN IF userJoinedNewChannel
       THEN IF newChannelIsTracked
            THEN IF ~userWasInTrackedSession THEN "joined"
                 ELSE IF oldChannelWasTracked THEN "idle" ELSE "joined"
            ELSE IF userWasInTrackedSession THEN "left" ELSE "idle"
       ELSE IF completelyLeftVoice /\ userWasInTrackedSession
                                    /\ oldChannelWasTracked
            THEN "left" ELSE "idle"

\* the callee chosen by the decision, on the map as it is now
StudySessionCallee(decision, u, i) ==
    IF decision = "joined" THEN handleUserJoinedStudySession(u, i)
    ELSE IF decision = "left" THEN handleUserLeftStudySession(u, i)
    ELSE UNCHANGED <<activeSessions, studySessions>>

RowAtJoinAfter(u) ==
    [rowAtJoin EXCEPT ![u] =
        IF activeSessions'[u] # NoSession /\ activeSessions'[u] # activeSessions[u]
        THEN [fresh |-> TRUE, exists |-> streaks[u].exists,
              last_activity_date |-> streaks[u].last_activity_date,
              daily_activity_minutes |-> streaks[u].daily_activity_minutes]
        ELSE NoJoin]

\* lines 532-607: hand over the join task, read the map, decide
StudySessionRead ==
    /\ h.pc = "session"
    /\ IF IsJoin(h.before, h.after)
       THEN /\ worker.state = "idle"
            /\ worker' = [state |-> "task", u |-> h.u, channel |-> h.after]
       ELSE UNCHANGED worker
    /\ LET decision == StudySessionDecision(activeSessions[h.u] # NoSession,
                                            h.before, h.after)
       IN /\ h' = IF decision = "idle" THEN IdleHandler
                  ELSE [h EXCEPT !.pc = decision]
          /\ rowAtJoin' = IF decision = "idle"
                          THEN [rowAtJoin EXCEPT ![h.u] = NoJoin]
                          ELSE rowAtJoin
    /\ sent' = {}
    /\ undelivered' = {}
    /\ UNCHANGED checker
    /\ UNCHANGED <<calendar, allowedVoiceChannelIDs, delivered, now, running, loc,
                   nEvents, activeSessions, lastVoiceEvent, studySessions,
                   streaks, batch, dayStart, evalLog, race>>

\* handleUserJoinedStudySession or handleUserLeftStudySession, as decided
StudySessionAct ==
    /\ h.pc \in {"joined", "left"}
    /\ \E i \in OpenRowChoices(h.u) : StudySessionCallee(h.pc, h.u, i)
    /\ rowAtJoin' = RowAtJoinAfter(h.u)
    /\ h' = IdleHandler
    /\ sent' = {}
    /\ undelivered' = {}
    /\ UNCHANGED checker
    /\ UNCHANGED <<calendar, allowedVoiceChannelIDs, delivered, now, running, loc,
                   nEvents, lastVoiceEvent, streaks, worker, batch,
                   dayStart, evalLog, race>>

\* The user, out of voice since the event that h is handling, joins channel
\* after; the handler of this event runs from start to end while h is still
\* in flight.  A join has no leave part (BeforeUpdate has no channel).
VoiceStateChangeOvertakes(u, after) ==
    /\ running
    /\ h.pc # "idle"
    /\ h.u = u
    /\ loc[u] = NoChannel
    /\ after # NoChannel
    /\ nEvents < MaxEvents
    /\ nEvents' = nEvents + 1
    /\ loc' = [loc EXCEPT ![u] = after]
    /\ delivered' = [copies |-> 1, u |-> u, before |-> NoChannel, after |-> after,
                     found |-> activeSessions[u],
                     duplicate |-> isDuplicateVoiceEvent(u, NoChannel, after)]
    /\ IF isDuplicateVoiceEvent(u, NoChannel, after)
       THEN UNCHANGED <<lastVoiceEvent, worker, activeSessions, studySessions,
                        rowAtJoin>>
       ELSE /\ lastVoiceEvent' = RecordVoiceEvent(u, NoChannel, after)
            /\ worker.state = "idle"
            /\ worker' = [state |-> "task", u |-> u, channel |-> after]
            /\ \E i \in OpenRowChoices(u) :
                 StudySessionCallee(
                     StudySessionDecision(activeSessions[u] # NoSession,
                                          NoChannel, after), u, i)
            /\ rowAtJoin' = RowAtJoinAfter(u)
    /\ sent' = {}
    /\ undelivered' = {}
    /\ UNCHANGED checker
    /\ UNCHANGED <<calendar, allowedVoiceChannelIDs, now, running, streaks, h, batch,
                   dayStart, evalLog, race>>

NextConcurrent ==
    \/ Tick
    \/ \E u \in Users, after \in Channels \cup {NoChannel} :
            VoiceStateChange(u, after)
    \/ \E u \in Users, after \in Channels : VoiceStateChangeOvertakes(u, after)
    \/ LeaveUpdateMinutes
    \/ processImmediateStreakUpdate
    \/ StudySessionRead
    \/ StudySessionAct
    \/ voiceEventWorker

\* The process has been running since the start of day 1: u1 joined the
\* tracked channel A at 00:00:30, the handler opened the session and the
\* study session row, and the worker ran HandleVoiceJoin on u1's row.
SessionStart == DateInstant(1) + 30

InitConcurrent ==
    /\ now = FirstInstant
    /\ running = TRUE
    /\ loc = [u \in Users |-> IF u = "u1" THEN "A" ELSE NoChannel]
    /\ nEvents = 0
    /\ activeSessions = [u \in Users |-> IF u = "u1" THEN SessionStart ELSE NoSession]
    /\ lastVoiceEvent = [k \in DedupeKeys |->
            IF k \in EventKeys("u1", NoChannel, "A") THEN SessionStart ELSE Null]
    /\ studySessions = [u \in Users |-> IF u = "u1" THEN <<SessionStart>> ELSE <<>>]
    /\ \E r \in InitRows :
        /\ streaks = [u \in Users |->
                IF u = "u1"
                THEN StartDailyActivity(r, ConvertToManilaDate(SessionStart),
                                        SessionStart)
                ELSE NoRow]
        /\ rowAtJoin = [u \in Users |->
                IF u = "u1"
                THEN [fresh |-> TRUE, exists |-> r.exists,
                      last_activity_date |-> r.last_activity_date,
                      daily_activity_minutes |-> r.daily_activity_minutes]
                ELSE NoJoin]
    /\ h = IdleHandler
    /\ worker = IdleWorker
    /\ batch = IdleBatch
    /\ sent = {}
    /\ undelivered = {}
    /\ checker = IdleChecker
    /\ delivered = NoEvent
    /\ calendar = NoCalendar
    /\ allowedVoiceChannelIDs = AllowedVoiceChannelIDs
    /\ dayStart = [u \in Users |-> streaks[u].current_streak_count]
    /\ evalLog = NoLog
    /\ race = NoRace

SpecConcurrent == InitConcurrent /\ [][NextConcurrent]_vars

(***************************************************************************)
(* A join for a user who is still in the session map.  u1 joined tracked   *)
(* channel A some seconds ago and moved on to untracked channel X within   *)
(* the deduplication window, so that move was dropped: the session, its    *)
(* database row and the stamps of the join are as the join left them, and  *)
(* u1 is in X.                                                             *)
(***************************************************************************)
SessionAges == {2, 5, 9, 10, 11, 200}

InitRejoin ==
    /\ now = FirstInstant
    /\ running = TRUE
    /\ loc = [u \in Users |-> IF u = "u1" THEN "X" ELSE NoChannel]
    /\ nEvents = 0
    /\ \E age \in SessionAges, r \in InitRows :
        /\ activeSessions = [u \in Users |->
                IF u = "u1" THEN now - age ELSE NoSession]
        /\ lastVoiceEvent = [k \in DedupeKeys |->
                IF k \in EventKeys("u1", NoChannel, "A") THEN now - age ELSE Null]
        /\ studySessions = [u \in Users |->
                IF u = "u1" THEN <<now - age>> ELSE <<>>]
        /\ streaks = [u \in Users |->
                IF u = "u1"
                THEN StartDailyActivity(r, ConvertToManilaDate(now - age), now - age)
                ELSE NoRow]
        /\ rowAtJoin = [u \in Users |->
                IF u = "u1"
                THEN [fresh |-> TRUE, exists |-> r.exists,
                      last_activity_date |-> r.last_activity_date,
                      daily_activity_minutes |-> r.daily_activity_minutes]
                ELSE NoJoin]
    /\ h = IdleHandler
    /\ worker = IdleWorker
    /\ batch = IdleBatch
    /\ sent = {}
    /\ undelivered = {}
    /\ checker = IdleChecker
    /\ delivered = NoEvent
    /\ calendar = NoCalendar
    /\ allowedVoiceChannelIDs = AllowedVoiceChannelIDs
    /\ dayStart = [u \in Users |-> streaks[u].current_streak_count]
    /\ evalLog = NoLog
    /\ race = NoRace

NextRejoin ==
    \/ Tick
    \/ \E u \in Users, after \in Channels \cup {NoChannel} :
            VoiceStateChange(u, after)
    \/ LeaveUpdateMinutes
    \/ processImmediateStreakUpdate
    \/ StudySessionLogic
    \/ voiceEventWorker

SpecRejoin == InitRejoin /\ [][NextRejoin]_vars

(***************************************************************************)
(* handleUserJoinedStudySession with failing database calls.               *)
(* EndStudySession of the pre-existing open row fails: the function        *)
(* returns before it touches the map.  CreateStudySession fails: the map   *)
(* entry written just before is deleted; the pre-existing open row has     *)
(* been ended by then.                                                     *)
(***************************************************************************)
CallsUserJoinedStudySession ==
    /\ h.pc = "session"
    /\ IsJoin(h.before, h.after)
    /\ h.after \in allowedVoiceChannelIDs
    /\ \/ activeSessions[h.u] = NoSession
       \/ h.before \notin allowedVoiceChannelIDs
    /\ ~JoinedSkips(h.u)

\* a failing CreateStudySession after which the entry written before stays
handleUserJoinedStudySessionCreateFails_keepsEntry(u, i) ==
    /\ activeSessions' = [activeSessions EXCEPT ![u] = now]
    /\ studySessions' = [studySessions EXCEPT ![u] =
          IF Len(@) = 0 THEN @ ELSE RemoveAt(@, i)]

\* handleUserJoinedStudySession when CreateStudySession fails
handleUserJoinedStudySessionCreateFails(u, i) ==
    /\ activeSessions' = [activeSessions EXCEPT ![u] = NoSession]
    /\ studySessions' = [studySessions EXCEPT ![u] =
          IF Len(@) = 0 THEN @ ELSE RemoveAt(@, i)]

\* handleUserJoinedStudySession when EndStudySession fails
handleUserJoinedStudySessionEndFails(u) ==
    UNCHANGED <<activeSessions, studySessions>>

\* handleUserJoinedStudySession when GetActiveStudySession fails with an
\* error other than sql.ErrNoRows: the error is logged, the open row is not
\* ended and the new session is created.
handleUserJoinedStudySessionReadFails(u) ==
    /\ activeSessions' = [activeSessions EXCEPT ![u] = now]
    /\ studySessions' = [studySessions EXCEPT ![u] = Append(@, now)]

StudySessionLogicReadFails ==
    /\ CallsUserJoinedStudySession
    /\ Len(studySessions[h.u]) > 0
    /\ worker.state = "idle"
    /\ worker' = [state |-> "task", u |-> h.u, channel |-> h.after]
    /\ handleUserJoinedStudySessionReadFails(h.u)
    /\ rowAtJoin' = [rowAtJoin EXCEPT ![h.u] = NoJoin]
    /\ h' = IdleHandler
    /\ sent' = {}
    /\ undelivered' = {}
    /\ UNCHANGED checker
    /\ UNCHANGED <<calendar, allowedVoiceChannelIDs,
                   delivered, now, running, loc, nEvents, lastVoiceEvent,
                   streaks, batch, dayStart, evalLog, race>>

StudySessionLogicCreateFails ==
    /\ CallsUserJoinedStudySession
    /\ worker.state = "idle"
    /\ worker' = [state |-> "task", u |-> h.u, channel |-> h.after]
    /\ \E i \in OpenRowChoices(h.u) :
            handleUserJoinedStudySessionCreateFails(h.u, i)
    /\ rowAtJoin' = [rowAtJoin EXCEPT ![h.u] = NoJoin]
    /\ h' = IdleHandler
    /\ sent' = {}
    /\ undelivered' = {}
    /\ UNCHANGED checker
    /\ UNCHANGED <<calendar, allowedVoiceChannelIDs,
                   delivered, now, running, loc, nEvents, lastVoiceEvent,
                   streaks, batch, dayStart, evalLog, race>>

StudySessionLogicEndFails ==
    /\ CallsUserJoinedStudySession
    /\ Len(studySessions[h.u]) > 0
    /\ worker.state = "idle"
    /\ worker' = [state |-> "task", u |-> h.u, channel |-> h.after]
    /\ handleUserJoinedStudySessionEndFails(h.u)
    /\ rowAtJoin' = [rowAtJoin EXCEPT ![h.u] = NoJoin]
    /\ h' = IdleHandler
    /\ sent' = {}
    /\ undelivered' = {}
    /\ UNCHANGED checker
    /\ UNCHANGED <<calendar, allowedVoiceChannelIDs,
                   delivered, now, running, loc, nEvents, lastVoiceEvent,
                   streaks, batch, dayStart, evalLog, race>>

NextJoinFailures ==
    \/ Tick
    \/ \E u \in Users, after \in Channels \cup {NoChannel} :
            VoiceStateChange(u, after)
    \/ LeaveUpdateMinutes
    \/ processImmediateStreakUpdate
    \/ StudySessionLogic
    \/ voiceEventWorker
    \/ StudySessionLogicCreateFails
    \/ StudySessionLogicEndFails
    \/ StudySessionLogicReadFails

SpecJoinFailures == InitRejoin /\ [][NextJoinFailures]_vars

(***************************************************************************)
(* SessionTimeoutChecker.  A pass takes its snapshot of the timed-out      *)
(* users under the session mutex and then calls endTimeoutSession for each *)
(* of them.  endTimeoutSession reads the voice states of the gateway       *)
(* cache, then takes the mutex and deletes the entry, then releases the    *)
(* mutex and ends the open database session: three steps, with the voice   *)
(* handlers, the clock and Close free to run between them.                 *)
(***************************************************************************)
MaxSessionSeconds == 14400

isUserInTrackedVoiceChannel(u) == loc[u] \in allowedVoiceChannelIDs

NextUser(pending) ==
    [pc |-> IF pending = {} THEN "idle" ELSE "next",
     now |-> IF pending = {} THEN Null ELSE checker.now,
     pending |-> pending, u |-> "u1"]

checkAndEndTimeoutSessions ==
    /\ running
    /\ checker.pc = "idle"
    /\ LET timeoutUsers == {u \in Users :
                /\ activeSessions[u] # NoSession
                /\ now - activeSessions[u] > MaxSessionSeconds}
       IN /\ timeoutUsers # {}
          /\ checker' = [pc |-> "next", now |-> now,
                         pending |-> timeoutUsers, u |-> "u1"]
    /\ sent' = {}
    /\ undelivered' = {}
    /\ UNCHANGED <<calendar, allowedVoiceChannelIDs, delivered, now, running,
                   loc, nEvents, activeSessions, lastVoiceEvent, studySessions,
                   streaks, h, worker, batch, history>>

\* endTimeoutSession up to the test of isUserInTrackedVoiceChannel
endTimeoutSessionCheck ==
    /\ checker.pc = "next"
    /\ \E u \in checker.pending :
         checker' = IF isUserInTrackedVoiceChannel(u)
                    THEN NextUser(checker.pending \ {u})
                    ELSE [checker EXCEPT !.pc = "remove", !.u = u]
    /\ sent' = {}
    /\ undelivered' = {}
    /\ UNCHANGED <<calendar, allowedVoiceChannelIDs, delivered, now, running,
                   loc, nEvents, activeSessions, lastVoiceEvent, studySessions,
                   streaks, h, worker, batch, history>>

\* endTimeoutSession under the mutex: the entry is deleted if there is one
endTimeoutSessionRemove ==
    /\ checker.pc = "remove"
    /\ h.pc # "session"
    /\ IF activeSessions[checker.u] = NoSession
       THEN /\ checker' = NextUser(checker.pending \ {checker.u})
            /\ UNCHANGED activeSessions
       ELSE /\ checker' = [checker EXCEPT !.pc = "end"]
            /\ activeSessions' = [activeSessions EXCEPT ![checker.u] = NoSession]
    /\ sent' = {}
    /\ undelivered' = {}
    /\ UNCHANGED <<calendar, allowedVoiceChannelIDs, delivered, now, running,
                   loc, nEvents, lastVoiceEvent, studySessions,
                   streaks, h, worker, batch, history>>

\* endTimeoutSession after the mutex: GetActiveStudySession, EndStudySession
endTimeoutSessionEnd ==
    /\ checker.pc = "end"
    /\ checker' = NextUser(checker.pending \ {checker.u})
    /\ \E i \in OpenRowChoices(checker.u) :
         studySessions' = [studySessions EXCEPT ![checker.u] =
              IF Len(@) = 0 THEN @ ELSE RemoveAt(@, i)]
    /\ sent' = {}
    /\ undelivered' = {}
    /\ UNCHANGED <<calendar, allowedVoiceChannelIDs, delivered, now, running,
                   loc, nEvents, activeSessions, lastVoiceEvent,
                   streaks, h, worker, batch, history>>

\* u1 joined tracked channel A some hours ago.  Either u1 is still there, or
\* u1 moved on to the untracked channel X within the deduplication window
\* and that move was dropped, so the session and its row are still open.
TimeoutAges == {MaxSessionSeconds - 1, MaxSessionSeconds,
                MaxSessionSeconds + 1, MaxSessionSeconds + 3600}

InitTimeout ==
    /\ now = FirstInstant
    /\ running = TRUE
    /\ \E c \in {"A", "X"} :
         loc = [u \in Users |-> IF u = "u1" THEN c ELSE NoChannel]
    /\ nEvents = 0
    /\ \E age \in TimeoutAges, r \in InitRows :
        /\ activeSessions = [u \in Users |->
                IF u = "u1" THEN now - age ELSE NoSession]
        /\ lastVoiceEvent = [k \in DedupeKeys |->
                IF k \in EventKeys("u1", NoChannel, "A") THEN now - age ELSE Null]
        /\ studySessions = [u \in Users |->
                IF u = "u1" THEN <<now - age>> ELSE <<>>]
        /\ streaks = [u \in Users |->
                IF u = "u1"
                THEN StartDailyActivity(r, ConvertToManilaDate(now - age), now - age)
                ELSE NoRow]
        /\ rowAtJoin = [u \in Users |->
                IF u = "u1"
                THEN [fresh |-> TRUE, exists |-> r.exists,
                      last_activity_date |-> r.last_activity_date,
                      daily_activity_minutes |-> r.daily_activity_minutes]
                ELSE NoJoin]
    /\ h = IdleHandler
    /\ worker = IdleWorker
    /\ batch = IdleBatch
    /\ sent = {}
    /\ undelivered = {}
    /\ checker = IdleChecker
    /\ delivered = NoEvent
    /\ calendar = NoCalendar
    /\ allowedVoiceChannelIDs = AllowedVoiceChannelIDs
    /\ dayStart = [u \in Users |-> streaks[u].current_streak_count]
    /\ evalLog = NoLog
    /\ race = NoRace

NextTimeout ==
    \/ Tick
    \/ \E u \in Users, after \in Channels \cup {NoChannel} :
            VoiceStateChange(u, after)
    \/ LeaveUpdateMinutes
    \/ processImmediateStreakUpdate
    \/ StudySessionLogic
    \/ voiceEventWorker
    \/ Close
    \/ checkAndEndTimeoutSessions
    \/ endTimeoutSessionCheck
    \/ endTimeoutSessionRemove
    \/ endTimeoutSessionEnd

SpecTimeout == InitTimeout /\ [][NextTimeout]_vars

(***************************************************************************)
(* The store operations of a day's tracking, applied to the rows of Init   *)
(* in any order and at any instant: the join task of a user reaching       *)
(* StartDailyActivity, and UpdateDailyActivityMinutes with any total.      *)
(***************************************************************************)

\* HandleVoiceJoin past the HasActivityForDate check, for a join of u into
\* the tracked channel A: StartDailyActivity with today's date and now.
StartDailyActivityStep(u) ==
    /\ running
    /\ nEvents < MaxEvents
    /\ nEvents' = nEvents + 1
    /\ delivered' = [NoEvent EXCEPT !.copies = 1, !.u = u, !.after = "A"]
    /\ streaks' = [streaks EXCEPT ![u] =
                        StartDailyActivity(@, GetTodayManilaDate, now)]
    /\ UNCHANGED <<calendar, allowedVoiceChannelIDs, now, running, loc, activeSessions,
                   lastVoiceEvent, studySessions, h, worker, batch, sent, undelivered, checker,
                   history>>

UpdateDailyActivityMinutesStep(u, minutes) ==
    /\ running
    /\ streaks[u].exists
    /\ streaks' = [streaks EXCEPT ![u] = UpdateDailyActivityMinutes(@, minutes)]
    /\ UNCHANGED <<calendar, allowedVoiceChannelIDs, delivered, now, running, loc, nEvents,
                   activeSessions, lastVoiceEvent, studySessions, h, worker,
                   batch, sent, undelivered, checker, history>>

NextStore ==
    \/ Tick
    \/ \E u \in Users : StartDailyActivityStep(u)
    \/ \E u \in Users, minutes \in MinutesChoices :
            UpdateDailyActivityMinutesStep(u, minutes)

SpecStore == Init /\ [][NextStore]_vars

(***************************************************************************)
(* The evening warning job alone.  The cron entry "0 20 * * *" runs        *)
(* SendEveningWarnings once a day at 20:00 Manila time: it fetches the     *)
(* users of GetUsersNeedingWarnings, then for each of them sends the       *)
(* warning and writes UpdateWarningNotifiedAt.  The store holds rows as    *)
(* the day's tracking can have left them by 20:00.                         *)
(***************************************************************************)
WarningSecond == 72000

\* rows at 20:00 of day 1: a streak or none, last active never, yesterday or
\* today, warned never or yesterday at 20:00
WarningRows ==
    { [exists |-> TRUE, current_streak_count |-> n, max_streak_count |-> 2,
       last_activity_date |-> d, streak_evaluated_date |-> 0,
       daily_activity_minutes |-> k,
       activity_start_time |-> IF d = Null THEN Null ELSE DateInstant(d) + 30,
       streak_incremented_today |-> (d = 1 /\ k >= minimumActivityMinutes),
       warning_notified_at |-> w] :
        n \in {0, 1, 2}, d \in {Null, 0, 1}, k \in MinutesChoices,
        w \in {Null, DateInstant(0) + WarningSecond} } \cup {NoRow}

\* GetUsersNeedingWarnings; DATE(warning_notified_at) is the calendar day of
\* the stamp, which the job writes at 20:00 Manila (noon UTC)
NeedsWarning(row, date) ==
    /\ row.exists
    /\ row.current_streak_count > 0
    /\ (row.last_activity_date = Null \/ row.last_activity_date < date)
    /\ (row.warning_notified_at = Null
        \/ ConvertToManilaDate(row.warning_notified_at) < date)

\* UpdateWarningNotifiedAt that writes nothing
UpdateWarningNotifiedAt_noWrite(row, at) == row

\* UpdateWarningNotifiedAt
UpdateWarningNotifiedAt(row, at) ==
    IF row.exists THEN [row EXCEPT !.warning_notified_at = at] ELSE row

InitWarnings ==
    /\ now = DateInstant(1) + WarningSecond
    /\ running = TRUE
    /\ loc = [u \in Users |-> NoChannel]
    /\ nEvents = 0
    /\ activeSessions = [u \in Users |-> NoSession]
    /\ lastVoiceEvent = [k \in DedupeKeys |-> Null]
    /\ studySessions = [u \in Users |-> <<>>]
    /\ streaks \in {f \in [Users -> WarningRows] :
                        /\ f["u2"] \in {NoRow, f["u1"]}
                        /\ f["u1"].exists
                        /\ f["u1"].last_activity_date = Null
                                => f["u1"].daily_activity_minutes = 0}
    /\ h = IdleHandler
    /\ worker = IdleWorker
    /\ batch = IdleBatch
    /\ sent = {}
    /\ undelivered = {}
    /\ checker = IdleChecker
    /\ delivered = NoEvent
    /\ calendar = NoCalendar
    /\ allowedVoiceChannelIDs = AllowedVoiceChannelIDs
    /\ dayStart = [u \in Users |-> streaks[u].current_streak_count]
    /\ rowAtJoin = [u \in Users |-> NoJoin]
    /\ evalLog = NoLog
    /\ race = NoRace

\* the cron entry fires; GetUsersNeedingWarnings
SendEveningWarnings ==
    /\ running
    /\ ManilaSecondOfDay(now) = WarningSecond
    /\ ~(batch.pc = "warn" /\ batch.today = GetTodayManilaDate)
    /\ LET todayDate == GetTodayManilaDate
           users == {u \in Users : NeedsWarning(streaks[u], todayDate)}
       IN batch' = [pc |-> "warn", today |-> todayDate, pending |-> users,
                    rows |-> [u \in Users |->
                                IF u \in users THEN streaks[u] ELSE NoRow]]
    /\ sent' = {}
    /\ undelivered' = {}
    /\ UNCHANGED checker
    /\ UNCHANGED <<calendar, allowedVoiceChannelIDs, delivered, now, running,
                   loc, nEvents, activeSessions, lastVoiceEvent, studySessions,
                   streaks, h, worker, history>>

\* one turn of the loop: sendStreakEmbed, then UpdateWarningNotifiedAt
sendEveningWarning(u) ==
    /\ batch.pc = "warn"
    /\ u \in batch.pending
    /\ sent' = {<<"streak_warning", u, batch.rows[u].current_streak_count>>}
    /\ undelivered' = {}
    /\ UNCHANGED checker
    /\ streaks' = [streaks EXCEPT ![u] = UpdateWarningNotifiedAt(@, now)]
    /\ batch' = [batch EXCEPT !.pending = @ \ {u},
                              !.rows = [@ EXCEPT ![u] = NoRow]]
    /\ UNCHANGED <<calendar, allowedVoiceChannelIDs, delivered, now, running,
                   loc, nEvents, activeSessions, lastVoiceEvent, studySessions,
                   h, worker, history>>

\* the clock reaches 20:00 of the next day; nobody was in voice in between
NextWarningTime ==
    /\ batch.pc = "warn"
    /\ batch.pending = {}
    /\ GetTodayManilaDate < MaxDay
    /\ now' = now + SecondsPerDay
    /\ sent' = {}
    /\ undelivered' = {}
    /\ UNCHANGED checker
    /\ UNCHANGED <<calendar, allowedVoiceChannelIDs, delivered, running, loc,
                   nEvents, activeSessions, lastVoiceEvent, studySessions,
                   streaks, h, worker, batch, history>>

NextWarnings ==
    \/ SendEveningWarnings
    \/ \E u \in Users : sendEveningWarning(u)
    \/ NextWarningTime

SpecWarnings == InitWarnings /\ [][NextWarnings]_vars

(***************************************************************************)
(* Notification delivery that fails.  sendStreakEmbed posts the embed to   *)
(* the notification channel and, when that fails, to the text channels of  *)
(* the guild; when every send fails it logs and returns nothing to its     *)
(* caller.  Each caller below is the step of the same name with the embed  *)
(* undelivered.  One moment of day 1 (23:56, 20:00 or 23:59): u1 is in     *)
(* tracked channel A since 00:00:30, u2 is out of voice and holds no row,  *)
(* or a streak from yesterday.                                             *)
(***************************************************************************)

\* processImmediateStreakUpdate, the embed undelivered
processImmediateStreakUpdateUndelivered ==
    /\ h.pc = "immediate"
    /\ LET row == streaks[h.u]
           newStreak == ImmediateStreak(row)
           raisedMax == Max(row.max_streak_count, newStreak)
       IN /\ streaks' = [streaks EXCEPT ![h.u] =
                            UpdateStreakImmediately(@, newStreak, raisedMax)]
          /\ sent' = {}
          /\ undelivered' = {<<"activity_completed", h.u, newStreak>>}
          /\ UNCHANGED checker
    /\ h' = [h EXCEPT !.pc = "session"]
    /\ evalLog' = NoLog
    /\ UNCHANGED <<calendar, allowedVoiceChannelIDs,
                   delivered, now, running, loc, nEvents, activeSessions, lastVoiceEvent,
                   studySessions, worker, batch, dayStart, rowAtJoin, race>>

\* processImmediateStreakUpdate returns an error (GetUserStreak or
\* UpdateStreakImmediately failed): HandleVoiceLeave logs it and sends the
\* basic completion embed, which carries no streak count
processImmediateStreakUpdateFails ==
    /\ h.pc = "immediate"
    /\ sent' = {<<"activity_completed", h.u, 0>>}
    /\ undelivered' = {}
    /\ UNCHANGED checker
    /\ h' = [h EXCEPT !.pc = "session"]
    /\ UNCHANGED <<calendar, allowedVoiceChannelIDs,
                   delivered, now, running, loc, nEvents, activeSessions, lastVoiceEvent,
                   studySessions, streaks, worker, batch, history>>

\* evaluateUserStreakForToday that writes only after a delivered embed
evaluateUserStreakForTodayUndelivered_noWrite(u) ==
    /\ batch.pc = "evaluate"
    /\ u \in batch.pending
    /\ EvaluationNotice(u, batch.rows[u], batch.today) # {}
    /\ sent' = {}
    /\ undelivered' = EvaluationNotice(u, batch.rows[u], batch.today)
    /\ UNCHANGED checker
    /\ batch' = IF batch.pending = {u} THEN IdleBatch
                ELSE [batch EXCEPT !.pending = @ \ {u},
                                   !.rows = [@ EXCEPT ![u] = NoRow]]
    /\ UNCHANGED <<calendar, allowedVoiceChannelIDs,
                   delivered, now, running, loc, nEvents, activeSessions, lastVoiceEvent,
                   studySessions, streaks, h, worker, history>>

\* evaluateUserStreakForToday, the embed undelivered
evaluateUserStreakForTodayUndelivered(u) ==
    /\ batch.pc = "evaluate"
    /\ u \in batch.pending
    /\ EvaluationNotice(u, batch.rows[u], batch.today) # {}
    /\ streaks' = [streaks EXCEPT ![u] =
                        EvaluationWrite(batch.rows[u], @, batch.today)]
    /\ sent' = {}
    /\ undelivered' = EvaluationNotice(u, batch.rows[u], batch.today)
    /\ UNCHANGED checker
    /\ batch' = IF batch.pending = {u} THEN IdleBatch
                ELSE [batch EXCEPT !.pending = @ \ {u},
                                   !.rows = [@ EXCEPT ![u] = NoRow]]
    /\ UNCHANGED <<calendar, allowedVoiceChannelIDs,
                   delivered, now, running, loc, nEvents, activeSessions, lastVoiceEvent,
                   studySessions, h, worker, history>>

\* one turn of the warning loop, the embed undelivered
sendEveningWarningUndelivered(u) ==
    /\ batch.pc = "warn"
    /\ u \in batch.pending
    /\ sent' = {}
    /\ undelivered' = {<<"streak_warning", u, batch.rows[u].current_streak_count>>}
    /\ UNCHANGED checker
    /\ streaks' = [streaks EXCEPT ![u] = UpdateWarningNotifiedAt(@, now)]
    /\ batch' = [batch EXCEPT !.pending = @ \ {u},
                              !.rows = [@ EXCEPT ![u] = NoRow]]
    /\ UNCHANGED <<calendar, allowedVoiceChannelIDs, delivered, now, running,
                   loc, nEvents, activeSessions, lastVoiceEvent, studySessions,
                   h, worker, history>>

\* rows of u2: none, or a streak kept up to yesterday
DeliveryRows == {NoRow, StreakRow}

InitDelivery ==
    /\ now \in {FirstInstant, DateInstant(1) + WarningSecond,
                DateInstant(1) + EvaluationSecond}
    /\ running = TRUE
    /\ loc = [u \in Users |-> IF u = "u1" THEN "A" ELSE NoChannel]
    /\ nEvents = 0
    /\ activeSessions = [u \in Users |-> IF u = "u1" THEN SessionStart ELSE NoSession]
    /\ lastVoiceEvent = [k \in DedupeKeys |->
            IF k \in EventKeys("u1", NoChannel, "A") THEN SessionStart ELSE Null]
    /\ studySessions = [u \in Users |-> IF u = "u1" THEN <<SessionStart>> ELSE <<>>]
    /\ \E r \in InitRows, r2 \in DeliveryRows :
        /\ streaks = [u \in Users |->
                IF u = "u1"
                THEN StartDailyActivity(r, ConvertToManilaDate(SessionStart),
                                        SessionStart)
                ELSE r2]
        /\ rowAtJoin = [u \in Users |->
                IF u = "u1"
                THEN [fresh |-> TRUE, exists |-> r.exists,
                      last_activity_date |-> r.last_activity_date,
                      daily_activity_minutes |-> r.daily_activity_minutes]
                ELSE NoJoin]
    /\ h = IdleHandler
    /\ worker = IdleWorker
    /\ batch = IdleBatch
    /\ sent = {}
    /\ undelivered = {}
    /\ checker = IdleChecker
    /\ delivered = NoEvent
    /\ calendar = NoCalendar
    /\ allowedVoiceChannelIDs = AllowedVoiceChannelIDs
    /\ dayStart = [u \in Users |-> streaks[u].current_streak_count]
    /\ evalLog = NoLog
    /\ race = NoRace

NextDelivery ==
    \/ \E u \in Users, after \in Channels \cup {NoChannel} :
            VoiceStateChange(u, after)
    \/ LeaveUpdateMinutes
    \/ processImmediateStreakUpdate
    \/ processImmediateStreakUpdateUndelivered
    \/ processImmediateStreakUpdateFails
    \/ StudySessionLogic
    \/ voiceEventWorker
    \/ EvaluateAllUserStreaks
    \/ \E u \in Users : evaluateUserStreakForToday(u)
    \/ \E u \in Users : evaluateUserStreakForTodayUndelivered(u)
    \/ SendEveningWarnings
    \/ \E u \in Users : sendEveningWarning(u)
    \/ \E u \in Users : sendEveningWarningUndelivered(u)

SpecDelivery == InitDelivery /\ [][NextDelivery]_vars

(***************************************************************************)
(* The calendar helpers alone: two time.Time values, each an instant next  *)
(* to a Manila or a UTC midnight with one of three locations attached, are *)
(* converted, compared, and the converted date is converted again.         *)
(***************************************************************************)
Zones == {0, ManilaOffset, 0 - 18000}

CalendarInstants ==
    { d * SecondsPerDay - z - e : d \in 1..MaxDay, z \in {0, ManilaOffset},
                                  e \in {0, 1} }

Times == { [sec |-> s, zone |-> z] : s \in CalendarInstants, z \in Zones }

InitCalendar ==
    /\ now = FirstInstant
    /\ running = TRUE
    /\ loc = [u \in Users |-> NoChannel]
    /\ nEvents = 0
    /\ activeSessions = [u \in Users |-> NoSession]
    /\ lastVoiceEvent = [k \in DedupeKeys |-> Null]
    /\ studySessions = [u \in Users |-> <<>>]
    /\ streaks = [u \in Users |-> NoRow]
    /\ h = IdleHandler
    /\ worker = IdleWorker
    /\ batch = IdleBatch
    /\ sent = {}
    /\ undelivered = {}
    /\ checker = IdleChecker
    /\ delivered = NoEvent
    /\ allowedVoiceChannelIDs = AllowedVoiceChannelIDs
    /\ \E t1 \in Times, t2 \in Times :
            calendar = [NoCalendar EXCEPT !.pc = "input", !.t1 = t1, !.t2 = t2]
    /\ dayStart = [u \in Users |-> 0]
    /\ rowAtJoin = [u \in Users |-> NoJoin]
    /\ evalLog = NoLog
    /\ race = NoRace

ConvertStep ==
    /\ calendar.pc = "input"
    /\ calendar' = [calendar EXCEPT
                        !.pc = "converted",
                        !.date1 = ConvertToManilaTime(calendar.t1),
                        !.date2 = ConvertToManilaTime(calendar.t2),
                        !.same = IsSameManilaTime(calendar.t1, calendar.t2)]
    /\ UNCHANGED <<allowedVoiceChannelIDs, delivered, now, running, loc,
                   nEvents, activeSessions, lastVoiceEvent, studySessions,
                   streaks, h, worker, batch, sent, undelivered, checker, history>>

ConvertAgainStep ==
    /\ calendar.pc = "converted"
    /\ calendar' = [calendar EXCEPT
                        !.pc = "done",
                        !.again1 = ConvertToManilaTime(calendar.date1)]
    /\ UNCHANGED <<allowedVoiceChannelIDs, delivered, now, running, loc,
                   nEvents, activeSessions, lastVoiceEvent, studySessions,
                   streaks, h, worker, batch, sent, undelivered, checker, history>>

NextCalendar == ConvertStep \/ ConvertAgainStep

SpecCalendar == InitCalendar /\ [][NextCalendar]_vars

(***************************************************************************)
(* The two operations on one row, run alone from start to end.             *)
(***************************************************************************)

\* HandleVoiceLeave for a session of the given whole minutes (at least 1)
LeaveAlone(row, minutes, todayDate) ==
    IF \/ ~row.exists
       \/ row.last_activity_date = Null
       \/ row.last_activity_date # todayDate
    THEN row
    ELSE LET newTotalMinutes == row.daily_activity_minutes + minutes
             updated == UpdateDailyActivityMinutes(row, newTotalMinutes)
         IN IF /\ row.daily_activity_minutes < minimumActivityMinutes
               /\ newTotalMinutes >= minimumActivityMinutes
               /\ ~row.streak_incremented_today
            THEN UpdateStreakImmediately(updated, ImmediateStreak(updated),
                    Max(updated.max_streak_count, ImmediateStreak(updated)))
            ELSE updated

\* evaluateUserStreakForToday deciding from the row it writes to
EvaluationAlone(row, todayDate) == EvaluationWrite(row, row, todayDate)

(***************************************************************************)
(* Properties.                                                             *)
(***************************************************************************)
StreakCounts(rows) ==
    [u \in Users |-> <<rows[u].current_streak_count, rows[u].max_streak_count>>]

\* The handler in flight has finished the accumulation step of a leave of
\* user h.u, whose in-memory session is still in the map.
LeaveAccounted ==
    /\ h.pc = "session"
    /\ IsLeave(h.before, h.after)
    /\ activeSessions[h.u] # NoSession

\* ... and that leave is the first event handled since the join that opened
\* the session, whose queued HandleVoiceJoin has run.
FirstLeaveAccounted ==
    /\ LeaveAccounted
    /\ rowAtJoin[h.u].fresh
    /\ worker.state # "task"

SessionMinutes(u) == DurationMinutes(now - activeSessions[u])

\* C1: a run of the daily evaluation that follows a run for the same
\* calendar date, with no write to a streak row in between, selects no user
\* and leaves every current_streak_count and max_streak_count as they were.
C1_IdempotentEvaluation ==
    [][(EvaluateAllUserStreaks /\ evalLog.date = GetTodayManilaDate
                               /\ evalLog.runs >= 1)
        => /\ batch' = IdleBatch
           /\ StreakCounts(streaks') = StreakCounts(streaks)]_vars

C1_Witness ==
    /\ evalLog.runs = 2
    /\ \E u \in Users : /\ streaks[u].streak_evaluated_date = evalLog.date
                        /\ streaks[u].current_streak_count > 0

\* C2 (as claimed): the accumulation step run on a voice leave never
\* changes current_streak_count.
C2_LeaveKeepsStreakCount ==
    [][(LeaveUpdateMinutes \/ processImmediateStreakUpdate)
        => \A u \in Users : streaks'[u].current_streak_count
                                = streaks[u].current_streak_count]_vars

\* C3 (as claimed): over one calendar day current_streak_count rises by at
\* most 1, the leaves of the day and the day's evaluation taken together.
C3_AtMostOneIncrementPerDay ==
    \A u \in Users : streaks[u].current_streak_count <= dayStart[u] + 1

\* C4: no step lowers max_streak_count, and after every step
\* max_streak_count >= current_streak_count.
C4_MaxStreakMonotone ==
    [][\A u \in Users :
          /\ streaks'[u].max_streak_count >= streaks[u].max_streak_count
          /\ streaks'[u].max_streak_count >= streaks'[u].current_streak_count]_vars

C4_Witness ==
    \E u \in Users : /\ streaks[u].max_streak_count >= 3
                     /\ streaks[u].current_streak_count = 0

\* C5 (as claimed): the evaluation of a user writes what the row stored
\* immediately before the write calls for, not what the row fetched at the
\* start of the batch calls for.
C5_EvaluationReadsLatest ==
    [][\A u \in Users :
          evaluateUserStreakForToday(u)
            => streaks'[u] = EvaluationAlone(streaks[u], batch.today)]_vars

\* C6 (as claimed): when the evaluation of a user and a leave accumulation
\* of that user start from the same row and overlap, the row they leave is
\* the row that one of the two serial orders leaves.
C6_EvaluationAndLeaveSerialize ==
    (/\ race.active
     /\ race.u \notin batch.pending
     /\ h.pc \notin {"minutes", "immediate"})
    => \/ streaks[race.u] =
            EvaluationAlone(LeaveAlone(race.row, race.minutes, race.today),
                            race.today)
       \/ streaks[race.u] =
            LeaveAlone(EvaluationAlone(race.row, race.today),
                       race.minutes, race.today)

\* C7 (as claimed): a session of 3 minutes, opened and closed on the same
\* day with no other activity of the user that day, leaves
\* daily_activity_minutes = 3 on a row dated today, whatever the row was
\* before the join.
C7_ThreeMinuteSession ==
    (/\ FirstLeaveAccounted
     /\ ConvertToManilaDate(activeSessions[h.u]) = GetTodayManilaDate
     /\ SessionMinutes(h.u) = 3
     /\ ~(/\ rowAtJoin[h.u].exists
          /\ rowAtJoin[h.u].last_activity_date = GetTodayManilaDate
          /\ rowAtJoin[h.u].daily_activity_minutes > 0))
    => /\ streaks[h.u].exists
       /\ streaks[h.u].last_activity_date = GetTodayManilaDate
       /\ streaks[h.u].daily_activity_minutes = 3

\* C8: when the row was dated yesterday at the join (whatever minutes it
\* held), the leave that closes the session opened by that join leaves the
\* row dated today with exactly the whole minutes of that session.
StaleAtJoin(u) ==
    /\ rowAtJoin[u].exists
    /\ rowAtJoin[u].last_activity_date # Null
    /\ rowAtJoin[u].last_activity_date = GetTodayManilaDate - 1

C8_StaleMinutesDoNotLeak ==
    (/\ FirstLeaveAccounted
     /\ ConvertToManilaDate(activeSessions[h.u]) = GetTodayManilaDate
     /\ StaleAtJoin(h.u))
    => /\ streaks[h.u].last_activity_date = GetTodayManilaDate
       /\ streaks[h.u].daily_activity_minutes = SessionMinutes(h.u)

C8_Witness ==
    /\ FirstLeaveAccounted
    /\ ConvertToManilaDate(activeSessions[h.u]) = GetTodayManilaDate
    /\ StaleAtJoin(h.u)
    /\ rowAtJoin[h.u].daily_activity_minutes = 50
    /\ SessionMinutes(h.u) = 3
    /\ streaks[h.u].daily_activity_minutes = 3

\* C9 (as claimed): a leave of a session opened on an earlier day, handled
\* while the row is not dated today, resets the minutes and persists the
\* session's minutes as today's total.
C9_RolloverAtLeave ==
    (/\ FirstLeaveAccounted
     /\ ConvertToManilaDate(activeSessions[h.u]) < GetTodayManilaDate
     /\ SessionMinutes(h.u) >= 1
     /\ streaks[h.u].exists)
    => /\ streaks[h.u].last_activity_date = GetTodayManilaDate
       /\ streaks[h.u].daily_activity_minutes = SessionMinutes(h.u)

\* C10 (as claimed): Bot.Close empties the in-memory session map and adds
\* the elapsed minutes of every open session to the daily_activity_minutes
\* of its user.
C10_ShutdownFlush ==
    [][Close
        => \A u \in Users :
              /\ activeSessions'[u] = NoSession
              /\ (activeSessions[u] # NoSession /\ streaks[u].exists)
                    => streaks'[u].daily_activity_minutes =
                          streaks[u].daily_activity_minutes + SessionMinutes(u)]_vars

\* The row the evaluation of u decides from is the row stored now.
EvaluatesStoredRow(u) ==
    /\ evaluateUserStreakForToday(u)
    /\ batch.rows[u] = streaks[u]

\* C12: when the evaluation of a user has written, the user's
\* streak_evaluated_date is the evaluated date and a re-run of the batch for
\* that date does not select the user, in every branch.
C12_EvaluationFences ==
    [][\A u \in Users :
          evaluateUserStreakForToday(u)
            => /\ streaks'[u].streak_evaluated_date = batch.today
               /\ ~(/\ streaks'[u].exists
                    /\ \/ streaks'[u].streak_evaluated_date = Null
                       \/ streaks'[u].streak_evaluated_date < batch.today)]_vars

\* a row that never had a streak and was evaluated today: the branch that
\* changes no count has written the date
C12_Witness ==
    \E u \in Users : /\ streaks[u].exists
                     /\ streaks[u].streak_evaluated_date = GetTodayManilaDate
                     /\ streaks[u].current_streak_count = 0
                     /\ streaks[u].last_activity_date = Null
                     /\ batch.pc = "idle"

\* C13: the evaluation maps (count n, qualifying activity today) to the new
\* count: activity and n = 0 gives 1; activity and n > 0 gives n + 1; no
\* activity and n > 0 gives 0 and an 'ended' notification carrying n; no
\* activity and n = 0 leaves 0 and sends nothing.
C13_EvaluationMapping ==
    [][\A u \in Users :
          EvaluatesStoredRow(u) =>
            LET n == streaks[u].current_streak_count
                active == /\ streaks[u].last_activity_date = batch.today
                          /\ streaks[u].daily_activity_minutes >= 1
                new == streaks'[u].current_streak_count
            IN /\ (active /\ n = 0) => new = 1
               /\ (active /\ n > 0) => new = n + 1
               /\ (~active /\ n > 0) =>
                     (new = 0 /\ <<"streak_ended", u, n>> \in sent')
               /\ (~active /\ n = 0) => (new = 0 /\ sent' = {})]_vars

C13_Witness ==
    \E u \in Users : /\ <<"streak_continued", u, 4>> \in sent
                     /\ streaks[u].current_streak_count = 4

\* C14 (as claimed): a record with current_streak_count = 5,
\* last_activity_date = yesterday and daily_activity_minutes = threshold is
\* evaluated to current_streak_count = 6.
C14_ContinuesFromYesterday ==
    [][\A u \in Users :
          (/\ EvaluatesStoredRow(u)
           /\ streaks[u].current_streak_count = 5
           /\ streaks[u].last_activity_date = batch.today - 1
           /\ streaks[u].daily_activity_minutes = minimumActivityMinutes)
            => streaks'[u].current_streak_count = 6]_vars

\* C14 (amended): a record with current_streak_count = 5 and
\* daily_activity_minutes = threshold is evaluated to 6 when its
\* last_activity_date is the evaluated day, and to 0 with an 'ended'
\* notification carrying 5 when it is the day before; with
\* daily_activity_minutes = 0 it is evaluated to 0 with 'ended' carrying 5.
C14_ContinuationOrReset ==
    [][\A u \in Users :
          (EvaluatesStoredRow(u) /\ streaks[u].current_streak_count = 5) =>
            LET d == streaks[u].last_activity_date
                k == streaks[u].daily_activity_minutes
                new == streaks'[u].current_streak_count
                ended == <<"streak_ended", u, 5>> \in sent'
            IN /\ (d = batch.today /\ k = 1) => new = 6
               /\ (d = batch.today - 1 /\ k = 1) => (new = 0 /\ ended)
               /\ (d # Null /\ k = 0) => (new = 0 /\ ended)]_vars

C14_Witness ==
    \E u \in Users : /\ streaks[u].current_streak_count = 6
                     /\ streaks[u].daily_activity_minutes = 1
                     /\ streaks[u].last_activity_date = GetTodayManilaDate
                     /\ streaks[u].streak_evaluated_date = GetTodayManilaDate
                     /\ <<"streak_continued", u, 6>> \in sent

\* C15: in the evaluation a user qualifies (the count rises) exactly when
\* last_activity_date is the evaluated day and daily_activity_minutes >= 1.
C15_ThresholdBoundary ==
    [][\A u \in Users :
          EvaluatesStoredRow(u) =>
            ((streaks'[u].current_streak_count > streaks[u].current_streak_count)
              <=> (/\ streaks[u].last_activity_date = batch.today
                   /\ streaks[u].daily_activity_minutes >= 1))]_vars

C15_Witness ==
    \E u \in Users : /\ streaks[u].daily_activity_minutes = 1
                     /\ streaks[u].last_activity_date = GetTodayManilaDate
                     /\ streaks[u].streak_evaluated_date = GetTodayManilaDate
                     /\ streaks[u].current_streak_count = 1
                     /\ <<"streak_started", u, 1>> \in sent

\* C11: a join event delivered a second time within the dedupe window is
\* discarded: no handler runs for it, and the in-memory sessions and the
\* open study sessions stay as the first delivery left them (one of each).
C11_DuplicateJoinDiscarded ==
    [][(VoiceStateRedelivery /\ IsJoin(delivered.before, delivered.after))
        => /\ h' = h
           /\ worker' = worker
           /\ activeSessions' = activeSessions
           /\ studySessions' = studySessions]_vars

C11_Witness ==
    /\ delivered.copies = 2
    /\ IsJoin(delivered.before, delivered.after)
    /\ delivered.after \in AllowedVoiceChannelIDs
    /\ h.pc = "idle"
    /\ activeSessions[delivered.u] = now
    /\ Len(studySessions[delivered.u]) = 1

\* C19 (as claimed): once the event of a move into an untracked channel has
\* been handled, the user has no entry in the in-memory session map.
C19_UntrackedMoveEndsSession ==
    \A u \in Users :
        (h.pc = "idle" /\ loc[u] \in Channels \ AllowedVoiceChannelIDs)
            => activeSessions[u] = NoSession

C20_EmptySetTracksAll ==
    (/\ allowedVoiceChannelIDs = {}
     /\ running
     /\ nEvents = 1
     /\ delivered.copies = 1
     /\ delivered.after # NoChannel
     /\ h.pc = "idle"
     /\ worker.state = "idle")
        => /\ activeSessions[delivered.u] # NoSession
           /\ streaks[delivered.u].exists
           /\ streaks[delivered.u].last_activity_date = GetTodayManilaDate

\* C16 (as claimed): the events of one user take effect in arrival order.
\* When the accumulation of a leave reads the record, no join task of that
\* user is still waiting for its StartDailyActivity; and while the leave of a
\* user out of voice is being handled no session is opened for that user:
\* the only change of the user's map entry is its removal.
C16_ArrivalOrder ==
    [][/\ (h.pc = "idle" /\ h'.pc = "minutes")
          => ~(worker.state = "task" /\ worker.u = h'.u)
       /\ (/\ h.pc # "idle"
           /\ h.before # NoChannel
           /\ h.after = NoChannel
           /\ activeSessions'[h.u] # activeSessions[h.u])
          => activeSessions'[h.u] = NoSession]_vars

\* The map entry after one event is handled alone on entry s (not dropped,
\* no failing call).
SessionAfter(s, before, after) ==
    LET decision == StudySessionDecision(s # NoSession, before, after)
    IN IF decision = "joined"
       THEN IF s # NoSession /\ now - s < RecentSessionWindow THEN s ELSE now
       ELSE IF decision = "left" THEN NoSession ELSE s

\* the step that ends handler h, after a later event of the same user was
\* handled (and not dropped) while h was in flight
EndsOvertakenHandler ==
    /\ h.pc # "idle"
    /\ h'.pc = "idle"
    /\ delivered.copies = 1
    /\ delivered.u = h.u
    /\ delivered.before = h.after
    /\ <<delivered.before, delivered.after>> # <<h.before, h.after>>
    /\ ~delivered.duplicate

C26_StartDailyActivityIdempotent ==
    [][nEvents' = nEvents + 1
        => LET u == delivered'.u
               row == streaks[u]
               date == GetTodayManilaDate
               once == streaks'[u]
           IN /\ once = StartDailyActivity(row, date, now)
              /\ (row.exists /\ row.last_activity_date = date) => once = row
              /\ row.exists =>
                    /\ once.current_streak_count = row.current_streak_count
                    /\ once.max_streak_count = row.max_streak_count
                    /\ once.streak_evaluated_date = row.streak_evaluated_date
              /\ (/\ row.exists
                  /\ \/ once.daily_activity_minutes # row.daily_activity_minutes
                     \/ once.last_activity_date # row.last_activity_date
                     \/ once.streak_incremented_today # row.streak_incremented_today)
                    => (row.last_activity_date # Null /\ row.last_activity_date # date)
              /\ \A start \in Instants :
                    StartDailyActivity(once, date, start) = once]_vars

\* the last application found the record initialised earlier today, with
\* minutes on it
C26_Witness ==
    /\ nEvents = 2
    /\ delivered.copies = 1
    /\ streaks[delivered.u].last_activity_date = GetTodayManilaDate
    /\ streaks[delivered.u].activity_start_time # Null
    /\ streaks[delivered.u].activity_start_time < now
    /\ streaks[delivered.u].daily_activity_minutes = 50

\* C30: the calendar helpers work against Manila time for every input.  Two
\* time.Time values are the same day exactly when the Manila calendar days
\* of their instants are equal, whatever location is attached to either;
\* the converted date is Manila midnight of that day; and converting a
\* converted date returns the same date.
C30_ManilaCalendar ==
    /\ calendar.pc \in {"converted", "done"} =>
        /\ calendar.same <=> (ConvertToManilaDate(calendar.t1.sec)
                                = ConvertToManilaDate(calendar.t2.sec))
        /\ calendar.date1 =
              [sec |-> DateInstant(ConvertToManilaDate(calendar.t1.sec)),
               zone |-> ManilaOffset]
        /\ \A z1 \in Zones, z2 \in Zones :
              IsSameManilaTime(In(calendar.t1, z1), In(calendar.t2, z2))
                = calendar.same
    /\ calendar.pc = "done" => calendar.again1 = calendar.date1

\* two values whose attached locations show different dates, on one Manila day
C30_Witness ==
    /\ calendar.pc = "done"
    /\ calendar.same
    /\ calendar.t1.zone # ManilaOffset
    /\ calendar.t2.zone # calendar.t1.zone
    /\ CivilDay(calendar.t1) # CivilDay(calendar.t2)
    /\ calendar.t1.sec # calendar.t2.sec

\* C23 (as claimed): the warning job warns exactly the users with a streak
\* who have not reached the minimum minutes today and were not warned within
\* the last 23 hours; it stamps warning_notified_at = now for each user it
\* warns; and no user is warned twice within 23 hours.
C23_WarnsExactlyThoseBelowMinimum ==
    [][/\ (batch'.pc = "warn" /\ batch'.today # batch.today)
          => batch'.pending =
                { u \in Users :
                    /\ streaks[u].exists
                    /\ streaks[u].current_streak_count > 0
                    /\ ~hasActivityToday(streaks[u], GetTodayManilaDate)
                    /\ \/ streaks[u].warning_notified_at = Null
                       \/ now - streaks[u].warning_notified_at >= 23 * 3600 }
       /\ \A u \in Users :
            (batch.pc = "warn" /\ u \in batch.pending /\ u \notin batch'.pending)
            => /\ <<"streak_warning", u, streaks[u].current_streak_count>> \in sent'
               /\ streaks'[u].warning_notified_at = now
               /\ \/ streaks[u].warning_notified_at = Null
                  \/ now - streaks[u].warning_notified_at >= 23 * 3600]_vars


(***************************************************************************)
(* C24: a notification whose delivery fails neither rolls back nor         *)
(* prevents the write that triggered it.  In every step that leaves an     *)
(* embed undelivered, the evaluation has written the new counts and        *)
(* streak_evaluated_date, the leave has left the accumulated minutes (and  *)
(* the immediate streak count) in the row, and the warning job has written *)
(* warning_notified_at.                                                    *)
(***************************************************************************)
C24_WritePersistsWithoutDelivery ==
    [][\A m \in undelivered' :
        LET u == m[2]
        IN /\ m[1] \in {"streak_started", "streak_continued", "streak_ended"}
                => /\ streaks'[u].streak_evaluated_date = batch.today
                   /\ streaks'[u].current_streak_count =
                            newStreakCount(batch.rows[u], batch.today)
                   /\ streaks'[u].max_streak_count =
                            Max(streaks[u].max_streak_count,
                                newMaxStreak(batch.rows[u], batch.today))
           /\ m[1] = "activity_completed"
                => /\ streaks'[u].daily_activity_minutes =
                            h.currentMinutes + h.minutes
                   /\ streaks'[u].current_streak_count = m[3]
                   /\ streaks'[u].streak_incremented_today
           /\ m[1] = "streak_warning"
                => streaks'[u].warning_notified_at = now]_vars

\* an undelivered streak-ended embed, and the row evaluated with the count at 0
C24_Witness ==
    \E m \in undelivered :
        /\ m[1] = "streak_ended"
        /\ m[3] > 0
        /\ streaks[m[2]].current_streak_count = 0
        /\ streaks[m[2]].streak_evaluated_date = GetTodayManilaDate

\* an undelivered warning, and the stamp written
C24_WitnessWarning ==
    \E m \in undelivered :
        /\ m[1] = "streak_warning"
        /\ streaks[m[2]].warning_notified_at = now

\* an undelivered completion embed, and the minutes of the session stored
C24_WitnessMinutes ==
    \E m \in undelivered :
        /\ m[1] = "activity_completed"
        /\ streaks[m[2]].daily_activity_minutes >= minimumActivityMinutes
        /\ streaks[m[2]].current_streak_count = m[3]

(***************************************************************************)
(* C25: a persistence error in the evaluation of one user abandons that    *)
(* user only, without a retry.  The step that fails for u takes u off the  *)
(* batch and nobody else, and leaves u's counts and streak_evaluated_date  *)
(* as they were, so that u still needs evaluation; when the batch ends,    *)
(* every other row is evaluated for today; the next run selects u again.   *)
(***************************************************************************)
C25_FailureAbandonsOneUser ==
    [][/\ \A u \in evalLog'.failed \ evalLog.failed :
            /\ batch'.pending = batch.pending \ {u}
            /\ streaks'[u].current_streak_count = streaks[u].current_streak_count
            /\ streaks'[u].max_streak_count = streaks[u].max_streak_count
            /\ streaks'[u].streak_evaluated_date = streaks[u].streak_evaluated_date
            /\ NeedsEvaluation(streaks'[u], batch.today)
       /\ (batch.pc = "evaluate" /\ batch'.pc = "idle")
            => \A u \in Users \ evalLog'.failed :
                    streaks'[u].streak_evaluated_date = batch.today
       /\ (batch.pc = "idle" /\ batch'.pc = "evaluate")
            => evalLog.failed \subseteq batch'.pending]_vars

\* the batch has ended: the evaluation of one user failed and its row is not
\* evaluated, the other user was pending after the failure and is evaluated
C25_Witness ==
    /\ batch.pc = "idle"
    /\ evalLog.date = GetTodayManilaDate
    /\ \E u, v \in Users :
        /\ u \in evalLog.failed
        /\ v \notin evalLog.failed
        /\ streaks[u].streak_evaluated_date # GetTodayManilaDate
        /\ streaks[v].streak_evaluated_date = GetTodayManilaDate
        /\ sent # {}

\* a later run has selected the user whose evaluation failed the day before
C25_WitnessLaterRun ==
    /\ batch.pc = "idle"
    /\ evalLog.failed = {}
    /\ GetTodayManilaDate = 2
    /\ \A u \in Users : streaks[u].streak_evaluated_date = 2
    /\ \E u \in Users : dayStart[u] > 0 /\ streaks[u].current_streak_count = 0

(***************************************************************************)
(* C27: the streak service never adds, changes or removes an entry of the  *)
(* bot's activeSessions map.  Every step that writes a user_streaks row,   *)
(* moves a batch, sends or fails to send a streak embed, accumulates a     *)
(* leave or runs a queued join leaves the map as it was; and the daily     *)
(* evaluation decides from the stored minutes alone: a user whose session  *)
(* is still open with less than the minimum stored is evaluated as         *)
(* inactive.                                                               *)
(***************************************************************************)
C27_EvaluatorLeavesSessionMap ==
    [][/\ (\/ streaks' # streaks
           \/ batch' # batch
           \/ sent' # {}
           \/ undelivered' # {}
           \/ h.pc \in {"minutes", "immediate"}
           \/ worker.state = "task" /\ worker'.state # "task")
            => activeSessions' = activeSessions
       /\ \A u \in Users :
            (/\ batch.pc = "evaluate"
             /\ u \in batch.pending
             /\ u \notin batch'.pending
             /\ activeSessions[u] # NoSession
             /\ batch.rows[u].daily_activity_minutes < minimumActivityMinutes)
            => /\ streaks'[u].current_streak_count <= streaks[u].current_streak_count
               /\ batch.rows[u].current_streak_count > 0
                    => streaks'[u].current_streak_count = 0
               /\ \A m \in sent' \cup undelivered' :
                    m[1] \notin {"streak_started", "streak_continued"}]_vars

\* a session of more than a minute is still open, and the evaluation has
\* ended its user's streak because no minutes were stored
C27_Witness ==
    \E u \in Users :
        /\ activeSessions[u] # NoSession
        /\ SessionMinutes(u) >= minimumActivityMinutes
        /\ dayStart[u] > 0
        /\ streaks[u].current_streak_count = 0
        /\ streaks[u].streak_evaluated_date = GetTodayManilaDate
        /\ <<"streak_ended", u, dayStart[u]>> \in sent

(***************************************************************************)
(* C28: on a leave the streak service reads the session start while the    *)
(* session is still in the bot's map, and the minutes it accumulates are   *)
(* the elapsed time of the session that this event closes: when the        *)
(* handler that accumulated minutes reaches the study-session logic, the   *)
(* session it measured is in the map, and that step takes it out.          *)
(***************************************************************************)
C28_AccumulatesTheClosedSession ==
    [][(h.pc = "session" /\ h.minutes >= 1 /\ h'.pc = "idle")
        => /\ activeSessions[h.u] # NoSession
           /\ h.minutes = SessionMinutes(h.u)
           /\ activeSessions'[h.u] # activeSessions[h.u]]_vars

(***************************************************************************)
(* C29: the activity-completed embed goes out exactly on the leave that    *)
(* takes the stored daily_activity_minutes from below the minimum to the   *)
(* minimum or more.  The write of the minutes is followed by the embed if  *)
(* and only if it crossed the minimum; the embed is handed to              *)
(* sendStreakEmbed once for that event, and no other step sends one.       *)
(***************************************************************************)
ActivityCompleted(msgs, u) == {m \in msgs : m[1] = "activity_completed" /\ m[2] = u}

C29_CompletionOnCrossing ==
    [][/\ (h.pc = "minutes" /\ h'.pc # "minutes")
            => (h'.pc = "immediate"
                <=> /\ streaks[h.u].daily_activity_minutes < minimumActivityMinutes
                    /\ streaks'[h.u].daily_activity_minutes >= minimumActivityMinutes)
       /\ (h.pc = "immediate" /\ h'.pc # "immediate")
            => Cardinality(ActivityCompleted(sent' \cup undelivered', h.u)) = 1
       /\ \A u \in Users :
            ~(h.pc = "immediate" /\ h'.pc # "immediate" /\ u = h.u)
                => ActivityCompleted(sent' \cup undelivered', u) = {}]_vars

\* the embed has just gone out for a leave that began below the minimum
C29_Witness ==
    /\ h.pc = "session"
    /\ h.currentMinutes < minimumActivityMinutes
    /\ h.currentMinutes + h.minutes >= minimumActivityMinutes
    /\ streaks[h.u].daily_activity_minutes = h.currentMinutes + h.minutes
    /\ ActivityCompleted(sent, h.u) # {}

\* a leave that began at the minimum or above has added its minutes, and no
\* embed follows
C29_WitnessAbove ==
    /\ h.pc = "session"
    /\ h.minutes >= 1
    /\ h.currentMinutes >= minimumActivityMinutes
    /\ streaks[h.u].daily_activity_minutes = h.currentMinutes + h.minutes
    /\ sent = {}

(***************************************************************************)
(* C21: every invocation of the voice-state handler eventually returns,    *)
(* whatever the worker is doing when the handler hands it a join task.     *)
(***************************************************************************)
C21_HandlerReturns == (h.pc # "idle") ~> (h.pc = "idle")

(***************************************************************************)
(* C31: a minute of voice presence is added to daily_activity_minutes at   *)
(* most once.  The minutes stored for today never exceed the minutes the   *)
(* user can have spent in sessions today, which are at most the minutes    *)
(* of today that have passed.                                              *)
(***************************************************************************)
C31_MinutesCountedOnce ==
    \A u \in Users :
        (streaks[u].exists /\ streaks[u].last_activity_date = GetTodayManilaDate)
            => streaks[u].daily_activity_minutes
                    <= DurationMinutes(ManilaSecondOfDay(now))

(***************************************************************************)
(* C32: no genuine join is lost to deduplication.  While the bot runs and  *)
(* no handler is in flight, a user whose last event placed them in a       *)
(* tracked channel has an entry in activeSessions.                         *)
(***************************************************************************)
C32_TrackedUserHasSession ==
    \A u \in Users :
        (running /\ h.pc = "idle" /\ loc[u] \in allowedVoiceChannelIDs)
            => activeSessions[u] # NoSession

(***************************************************************************)
(* C33: presence that reaches the minimum on day D counts for day D's      *)
(* evaluation even while the session is still open at 23:59.  A user who   *)
(* began the day with a streak and whose open session of today is at least *)
(* the minimum long does not have the streak at 0 once evaluated for today.*)
(***************************************************************************)
C33_OpenSessionCountsAtEvaluation ==
    \A u \in Users :
        (/\ activeSessions[u] # NoSession
         /\ ConvertToManilaDate(activeSessions[u]) = GetTodayManilaDate
         /\ SessionMinutes(u) >= minimumActivityMinutes
         /\ dayStart[u] > 0
         /\ streaks[u].streak_evaluated_date = GetTodayManilaDate)
            => streaks[u].current_streak_count > 0

(***************************************************************************)
(* C36: after StartDailyActivity(user, guild, D, now) the row is dated D,  *)
(* whatever the row was before, a row with last_activity_date NULL         *)
(* included.                                                               *)
(***************************************************************************)
C36_StartDailyActivityDatesRow ==
    [][\A u \in Users :
        (nEvents' = nEvents + 1 /\ delivered'.u = u)
            => /\ streaks'[u].exists
               /\ streaks'[u].last_activity_date = GetTodayManilaDate]_vars

(***************************************************************************)
(* C39: a leave accumulation on a row dated today stores the previous      *)
(* minutes plus the whole minutes since the session start (the floor of    *)
(* the elapsed seconds over 60); a leave of a session shorter than a       *)
(* minute starts no accumulation and writes nothing; and the minutes of a  *)
(* row never decrease while its date stays the same.                       *)
(***************************************************************************)
C39_LeaveAddsWholeMinutes ==
    [][/\ (h.pc = "minutes" /\ h'.pc # "minutes")
            => /\ streaks[h.u].last_activity_date = GetTodayManilaDate
               /\ delivered.u = h.u
               /\ delivered.found # NoSession
               /\ streaks'[h.u].daily_activity_minutes =
                    streaks[h.u].daily_activity_minutes
                        + (now - delivered.found) \div 60
               /\ (now - delivered.found) \div 60 >= 1
       /\ \A u \in Users :
            (/\ h.pc = "idle"
             /\ h'.pc # "idle"
             /\ h'.u = u
             /\ activeSessions[u] # NoSession
             /\ now - activeSessions[u] < 60)
                => h'.pc # "minutes" /\ streaks' = streaks
       /\ \A u \in Users :
            (/\ streaks[u].exists
             /\ streaks'[u].last_activity_date = streaks[u].last_activity_date)
                => streaks'[u].daily_activity_minutes
                        >= streaks[u].daily_activity_minutes]_vars

\* a leave has added the floor of a duration that is not a whole number of
\* minutes
C39_Witness ==
    /\ h.pc \in {"immediate", "session"}
    /\ h.minutes >= 1
    /\ activeSessions[h.u] # NoSession
    /\ (now - activeSessions[h.u]) % 60 # 0
    /\ streaks[h.u].daily_activity_minutes
            = h.currentMinutes + (now - activeSessions[h.u]) \div 60

\* a leave of a session shorter than a minute has been handled, nothing added
C39_WitnessShort ==
    /\ h.pc = "session"
    /\ IsLeave(h.before, h.after)
    /\ h.minutes = 0
    /\ activeSessions[h.u] # NoSession
    /\ now - activeSessions[h.u] < 60
    /\ streaks[h.u].last_activity_date = GetTodayManilaDate

(***************************************************************************)
(* C37, as stated: every join into a tracked channel handled for a user    *)
(* who is still in the session map follows one policy.  If the session in  *)
(* the map began less than 10 seconds ago, the join changes neither the    *)
(* map nor the open database sessions; otherwise the open database session *)
(* is ended, a new one begins now, and the start time in the map becomes   *)
(* now.                                                                    *)
(***************************************************************************)
JoinFindsSession ==
    /\ h.pc = "session"
    /\ h'.pc = "idle"
    /\ IsJoin(h.before, h.after)
    /\ h.after \in allowedVoiceChannelIDs
    /\ activeSessions[h.u] # NoSession

GraceWindowPolicy ==
    IF now - activeSessions[h.u] < 10
    THEN /\ activeSessions' = activeSessions
         /\ studySessions' = studySessions
    ELSE /\ activeSessions' = [activeSessions EXCEPT ![h.u] = now]
         /\ \E i \in 1..Len(studySessions[h.u]) :
              studySessions'[h.u] = Append(RemoveAt(studySessions[h.u], i), now)

C37_WitnessReplaced ==
    /\ h.pc = "idle"
    /\ delivered.copies = 1
    /\ ~delivered.duplicate
    /\ delivered.after \in allowedVoiceChannelIDs
    /\ delivered.before \notin allowedVoiceChannelIDs
    /\ delivered.found # NoSession
    /\ now - delivered.found >= 10
    /\ activeSessions[delivered.u] = now
    /\ studySessions[delivered.u] = <<now>>

(***************************************************************************)
(* C38: when CreateStudySession fails in the handling of a join, the user  *)
(* has no entry in activeSessions afterwards and no session beginning now  *)
(* is open in the database; when EndStudySession of the pre-existing open  *)
(* session fails, no session is created and the map is as it was.          *)
(***************************************************************************)
OpenSessionStarts(u) == {studySessions[u][j] : j \in 1..Len(studySessions[u])}

C38_JoinFailureLeavesNoEntry ==
    [][/\ StudySessionLogicCreateFails
            => /\ activeSessions'[h.u] = NoSession
               /\ \A v \in Users \ {h.u} : activeSessions'[v] = activeSessions[v]
               /\ Len(studySessions'[h.u]) <= Len(studySessions[h.u])
       /\ StudySessionLogicEndFails
            => /\ activeSessions' = activeSessions
               /\ studySessions' = studySessions]_vars

\* a join found its user in the map with a session older than the window,
\* the creation of the new session failed, and the user has no entry
C38_Witness ==
    /\ h.pc = "idle"
    /\ delivered.copies = 1
    /\ ~delivered.duplicate
    /\ delivered.after \in allowedVoiceChannelIDs
    /\ delivered.found # NoSession
    /\ now - delivered.found >= 10
    /\ activeSessions[delivered.u] = NoSession
    /\ studySessions[delivered.u] = <<>>

\* the ending of the open session failed: the old entry and the old row stay
C38_WitnessEndFails ==
    /\ h.pc = "idle"
    /\ delivered.copies = 1
    /\ ~delivered.duplicate
    /\ delivered.after \in allowedVoiceChannelIDs
    /\ delivered.before \notin allowedVoiceChannelIDs
    /\ delivered.found # NoSession
    /\ now - delivered.found >= 10
    /\ activeSessions[delivered.u] = delivered.found
    /\ delivered.found \in OpenSessionStarts(delivered.u)

(***************************************************************************)
(* C34: whenever no handler and no pass of the timeout checker is running,  *)
(* a user has an entry in                                                  *)
(* activeSessions exactly when a study session with end_time NULL exists   *)
(* for that user in the database.                                          *)
(***************************************************************************)
C34_MapMatchesOpenSessions ==
    (h.pc = "idle" /\ checker.pc = "idle") =>
        \A u \in Users :
            (activeSessions[u] # NoSession) <=> (Len(studySessions[u]) > 0)

(***************************************************************************)
(* C35: at every moment each user has at most one study session with       *)
(* end_time NULL in the database.                                          *)
(***************************************************************************)
C35_AtMostOneOpenSession ==
    \A u \in Users : Len(studySessions[u]) <= 1

(***************************************************************************)
(* C40: the timeout checker removes an entry of activeSessions only if, at *)
(* the moment of the removal, the session is older than the maximum        *)
(* session length and its user is in no tracked voice channel; a session   *)
(* opened after the snapshot of the pass is not removed by that pass.      *)
(***************************************************************************)
C40_RemovesOnlyTimedOutSessions ==
    [][(/\ checker.pc = "remove"
        /\ checker'.pc = "end"
        /\ activeSessions[checker.u] # NoSession
        /\ activeSessions'[checker.u] = NoSession)
            => /\ now - activeSessions[checker.u] > MaxSessionSeconds
               /\ ~isUserInTrackedVoiceChannel(checker.u)
               /\ activeSessions[checker.u] <= checker.now]_vars

====
